---- MODULE Spec2Model ----
(***************************************************************************)
(* Model of the medical voice translator: the VoiceTranslator component    *)
(* (src/unnamed/part_000), its voice-activity detection, its recording     *)
(* lifecycle and its debounced dispatch to the enhancement/translation     *)
(* pipeline.                                                               *)
(*                                                                         *)
(* The component is a React function component.  Every function declared   *)
(* in its body (toggleRecording, startAudioMonitoring, monitorAudioLevels, *)
(* checkForSilence, the recognition handlers) reads the useState values of *)
(* the render in which it was created.  A function that stays scheduled or *)
(* registered across renders (an async continuation, a requestAnimation-   *)
(* Frame chain, a setTimeout chain, a handler installed by an effect)      *)
(* keeps reading the values of that render.  The model therefore passes    *)
(* those values to the handlers as explicit closure parameters; refs       *)
(* (xxxRef.current) are read from the current state.                       *)
(*                                                                         *)
(* The second part models the server module lib/ai-service.ts: its module  *)
(* state (providerStatus, currentProvider, the request timestamps of the   *)
(* rate limiter) and its exported async functions.  Calls of the exported  *)
(* functions run concurrently; a call is a process that moves from one     *)
(* await to the next in one step.                                          *)
(*                                                                         *)
(* The third part models the CryptoService singleton                       *)
(* (lib/crypto-service.ts), whose async methods run the same way, and the  *)
(* EncryptionStatus panel (components/encryption-status.tsx) that          *)
(* initializes and clears it and reports to the component.                 *)
(***************************************************************************)
EXTENDS Integers, Sequences, FiniteSets, TLC

\* ---------------------------------------------------------------- bounds
MaxTime == 2000        \* the clock stops advancing here (ms)
MaxStarts == 2         \* start requests and sampling loops alive at once
MaxResults == 2        \* results the engine holds in one recognition run
MaxFinals == 3         \* the same, where only final results are delivered
MaxDebounceTime == 3000 \* the clock's horizon where the debounce is timed
MaxSent == 2           \* dispatches after which the sample button rests
MaxEncryptionFinals == 1 \* final results where the encryption is switched
MaxEncryptionTime == 1200 \* the clock's horizon there
MaxProviderChanges == 1 \* provider changes that are under way at once
MaxVadTime == 500      \* the clock's horizon where the sampling is timed

MaxServiceTime == 30000 \* the clock's horizon where the rate limiter is timed
MaxCalls == 3          \* calls of the server module alive at once
MaxRetryCalls == 2     \* the same, where the retries are timed
MaxLimiterCalls == 2   \* the same, where the rate limiter is timed
LimiterMargin == 2     \* requests short of the limit that are on record before
MaxCryptoCalls == 2    \* calls of the CryptoService alive at once
MaxKeys == 4           \* keys that are held or referred to at once

\* ------------------------------------------------------ program constants
DEFAULT_SILENCE_THRESHOLD == 1500
DEFAULT_AUDIO_THRESHOLD == 12
DebounceWaitMs == 1000
SilencePollMs == 100
SpeechHoldMs == 300

GroqMaxRequestsPerMinute == 25
OpenaiMaxRequestsPerMinute == 15
GroqRetryDelayMs == 2000
OpenaiRetryDelayMs == 1000
MaxRetries == 3
DefaultRetryDelayMs == 1000
RateWindowMs == 60000
RetryBufferMs == 500
MinRetryAfterMs == 100

\* The clock advances to the next timer that is due, or by this much.
StepMs == DebounceWaitMs
\* The same, where the debounce is timed.
DebounceStepMs == DebounceWaitMs \div 5
\* The same, where the sampling is timed.
VadStepMs == SilencePollMs
\* The same, where the rate limiter is timed.
LimiterStepMs == RateWindowMs \div 2

\* useState(false) of encryptionEnabled
InitialEncryptionEnabled == FALSE

Null == "null"
NoTimer == [due |-> -1, text |-> <<>>]
NoPoll == [due |-> -1, isRecording |-> FALSE, silenceThreshold |-> 0]
NoLoop == [on |-> FALSE, isSpeechDetected |-> FALSE, audioThreshold |-> 0]
NoOrphan == [phase |-> "none", isRecording |-> FALSE]
NoTick == [at |-> -1, loud |-> FALSE, was |-> FALSE]

\* The words one recognition result can carry, as character sequences.
Words == {<<>>, <<"a">>}

\* The sample texts of the sample button.
SampleTexts == {<<"s">>}

\* The values the sliders are moved to.
AudioThresholds == {6, DEFAULT_AUDIO_THRESHOLD}
SilenceThresholds == {500, DEFAULT_SILENCE_THRESHOLD}

\* The audio frames a sampling tick can read, reduced to average and peak.
Levels == { [average |-> 5, peak |-> 10], [average |-> 12, peak |-> 24],
            [average |-> 13, peak |-> 20], [average |-> 5, peak |-> 25] }

Min(a, b) == IF a < b THEN a ELSE b

VARIABLES
    now,                  \* Date.now()
    mounted,              \* the component is mounted
    isCheckingApi,        \* useState: the spinner is rendered for the page
    sheetOpen,            \* the settings sheet is open (lost with the page)
    showAdvancedSettings, \* useState
    apiStatus,            \* useState: what checkAPIStatus() answered
    apiChecks,            \* runs of checkApi and handleProviderChange: await
    changing,             \* ProviderSelector.handleChange calls awaiting
    selected,             \* ProviderSelector: useState, the radio chosen
    isRecording,          \* useState
    isSpeechDetected,     \* useState
    error,                \* useState
    audioThreshold,       \* useState
    silenceThreshold,     \* useState
    processingRef,        \* processingRef.current (isProcessing mirrors it)
    inflight,             \* texts of the dispatches whose handler has not ended
    awaiting,             \* what each of them awaits: the pipeline, or in its catch
    transcriptRef,        \* transcriptRef.current
    lastSpeechTimeRef,    \* lastSpeechTimeRef.current
    timers,               \* the setTimeout timers of debounce() that are pending
    timeout,              \* the debounce closure's timeout, while it is pending
    engine,               \* state of the recognition object in recognitionRef
    results,              \* event.results of the running recognition
    handlerIsRecording,   \* isRecording as captured by the installed handlers
    orphan,               \* an aborted recognition object that was replaced
    pending,              \* start requests awaiting getUserMedia (closures)
    analyserRef,          \* analyserRef.current and dataArrayRef.current set
    loops,                \* requestAnimationFrame chains that are scheduled
    animationFrameRef,    \* animationFrameRef.current (0 = null)
    silenceTimerRef,      \* silenceTimerRef.current
    microphoneStreamRef,  \* microphoneStreamRef.current: null, live, stopped
    orphanStreams,        \* live capture streams no ref points to
    trackStops,           \* track.stop() calls made on the referenced stream
    dispatchRequested,    \* debouncedTranslate was called since the last start
    stopHits,             \* stop triggers that ran since the last session start
    tracing,              \* whether requests and calls are recorded
    requests,             \* the calls of debouncedTranslate: text and time
    calls,                \* the runs of the debounced function: text and time
    sent,                 \* the texts handed to the pipeline, in order
    lastLoudAt,           \* time of the session's last tick classified loud
    lastTick,             \* the session's last tick: time, class, flag before
    encryptionEnabled,    \* useState
    encryptionKey,        \* cryptoServiceRef.current.isInitialized()
    cryptoService,        \* CryptoService: encryptionKey and keyId (0 = null)
    cryptoCalls,          \* CryptoService: the calls of its async methods
    panel,                \* EncryptionStatus: its useState values
    notified,             \* the latest call of onEncryptionChange
    lastPayload,          \* what the latest dispatch handed to the pipeline
    providerStatus,       \* ai-service: providerStatus
    currentProvider,      \* ai-service: currentProvider
    requestTimestamps,    \* ai-service: rateLimits[p].requestTimestamps
    serverCalls           \* ai-service: the calls of the exported functions

vars == << now, mounted, isCheckingApi, sheetOpen, showAdvancedSettings,
           apiStatus, apiChecks, changing, selected, isRecording,
           isSpeechDetected, error, audioThreshold,
           silenceThreshold, processingRef, inflight, awaiting, transcriptRef,
           lastSpeechTimeRef, timeout, engine, results, handlerIsRecording,
           orphan, pending, analyserRef, loops, animationFrameRef,
           silenceTimerRef, microphoneStreamRef, orphanStreams, trackStops,
           dispatchRequested, timers, stopHits, tracing, requests, calls,
           sent, lastLoudAt, lastTick, encryptionEnabled, encryptionKey,
           lastPayload, providerStatus, currentProvider, requestTimestamps,
           serverCalls, cryptoService, cryptoCalls, panel, notified >>

\* What decides which of the component's controls are rendered, and the
\* handlers that change it.
Page ==
    << isCheckingApi, sheetOpen, showAdvancedSettings, apiStatus, apiChecks,
       changing, selected >>

\* The state of the server module.
Service == << providerStatus, currentProvider, requestTimestamps, serverCalls >>

\* The state of the component, the clock apart.
Component ==
    << mounted, Page, isRecording, isSpeechDetected, error, audioThreshold,
       silenceThreshold, processingRef, inflight, awaiting, transcriptRef,
       lastSpeechTimeRef, timeout, engine, results, handlerIsRecording,
       orphan, pending, analyserRef, loops, animationFrameRef,
       silenceTimerRef, microphoneStreamRef, orphanStreams, trackStops,
       dispatchRequested, timers, stopHits, tracing, requests, calls,
       sent, lastLoudAt, lastTick, encryptionEnabled, encryptionKey,
       lastPayload, cryptoService, cryptoCalls, panel, notified >>

\* The state of the CryptoService and of the encryption panel.
Crypto == << cryptoService, cryptoCalls, panel, notified >>

\* The state of the component that the encryption panel leaves alone.
Session ==
    << mounted, isRecording, isSpeechDetected, error, audioThreshold,
       silenceThreshold, processingRef, inflight, awaiting, transcriptRef,
       lastSpeechTimeRef, timeout, engine, results, handlerIsRecording,
       orphan, pending, analyserRef, loops, animationFrameRef,
       silenceTimerRef, microphoneStreamRef, orphanStreams, trackStops,
       dispatchRequested, timers, stopHits, tracing, requests, calls,
       sent, lastLoudAt, lastTick, lastPayload >>

\* ------------------------------------------------------------ text helpers
RECURSIVE TrimLeft(_)
TrimLeft(s) ==
    IF s = <<>> THEN s
    ELSE IF Head(s) = " " THEN TrimLeft(Tail(s)) ELSE s

RECURSIVE TrimRight(_)
TrimRight(s) ==
    IF s = <<>> THEN s
    ELSE IF s[Len(s)] = " " THEN TrimRight(SubSeq(s, 1, Len(s) - 1)) ELSE s

\* String.prototype.trim
Trim(s) == TrimRight(TrimLeft(s))

\* onresult: transcript += event.results[i][0].transcript + " "
RECURSIVE TranscriptOf(_)
TranscriptOf(rs) ==
    IF rs = <<>> THEN <<>>
    ELSE rs[1].t \o <<" ">> \o TranscriptOf(Tail(rs))

\* onresult: isFinal is set when any result of the list is final
AnyFinal(rs) == \E i \in 1..Len(rs) : rs[i].f

\* ------------------------------------------------- the component's state
\* The fields the handlers read and write, as one record, so that a handler
\* is the composition of the statements of its code.
Cur ==
    [ isRecording |-> isRecording, isSpeechDetected |-> isSpeechDetected,
      error |-> error, processingRef |-> processingRef, inflight |-> inflight,
      awaiting |-> awaiting,
      transcriptRef |-> transcriptRef, lastSpeechTimeRef |-> lastSpeechTimeRef,
      timers |-> timers, timeout |-> timeout, engine |-> engine, results |-> results,
      analyserRef |-> analyserRef, loops |-> loops,
      animationFrameRef |-> animationFrameRef,
      silenceTimerRef |-> silenceTimerRef,
      microphoneStreamRef |-> microphoneStreamRef,
      orphanStreams |-> orphanStreams, trackStops |-> trackStops,
      dispatchRequested |-> dispatchRequested, stopHits |-> stopHits,
      requests |-> requests, calls |-> calls, sent |-> sent,
      lastLoudAt |-> lastLoudAt, lastTick |-> lastTick,
      encryptionKey |-> encryptionKey, lastPayload |-> lastPayload ]

\* Refs are written wherever the handler runs; a useState setter called after
\* the component was unmounted changes nothing.
Commit(s, live) ==
    /\ isRecording' = IF live THEN s.isRecording ELSE isRecording
    /\ isSpeechDetected' = IF live THEN s.isSpeechDetected ELSE isSpeechDetected
    /\ error' = IF live THEN s.error ELSE error
    /\ processingRef' = s.processingRef
    /\ inflight' = s.inflight
    /\ awaiting' = s.awaiting
    /\ transcriptRef' = s.transcriptRef
    /\ lastSpeechTimeRef' = s.lastSpeechTimeRef
    /\ timers' = s.timers
    /\ timeout' = s.timeout
    /\ engine' = s.engine
    /\ results' = s.results
    /\ analyserRef' = s.analyserRef
    /\ loops' = s.loops
    /\ animationFrameRef' = s.animationFrameRef
    /\ silenceTimerRef' = s.silenceTimerRef
    /\ microphoneStreamRef' = s.microphoneStreamRef
    /\ orphanStreams' = s.orphanStreams
    /\ trackStops' = s.trackStops
    /\ dispatchRequested' = s.dispatchRequested
    /\ stopHits' = s.stopHits
    /\ requests' = s.requests
    /\ calls' = s.calls
    /\ sent' = s.sent
    /\ lastLoudAt' = s.lastLoudAt
    /\ lastTick' = s.lastTick
    /\ lastPayload' = s.lastPayload

LoopIds == 1..MaxStarts
ActiveLoops(ls) == {i \in LoopIds : ls[i].on}
FreeLoop(ls) == CHOOSE i \in LoopIds : ~ls[i].on /\ \A j \in LoopIds : j < i => ls[j].on

\* ------------------------------------------------------------ the handlers
\* Bookkeeping, not program state: one more stop trigger has run (2 stands
\* for two or more).
Hit(s) == [s EXCEPT !.stopHits = Min(@ + 1, 2)]

\* recognition.stop(): a running recognition starts to wind down, anything
\* else is left alone.
RecognitionStop(e) == IF e = "running" THEN "stopping" ELSE e

\* recognition.abort()
RecognitionAbort(e) == IF e = "idle" THEN "idle" ELSE "aborted"

\* stopAudioMonitoring with the stream left in its ref after its tracks were
\* stopped.
StopAudioMonitoringKeepsStream(s) ==
    LET a == IF s.animationFrameRef # 0
             THEN [s EXCEPT !.loops[s.animationFrameRef] = NoLoop,
                            !.animationFrameRef = 0]
             ELSE s
        b == IF a.silenceTimerRef # NoPoll
             THEN [a EXCEPT !.silenceTimerRef = NoPoll]
             ELSE a
        c == IF b.microphoneStreamRef # Null
             THEN [b EXCEPT !.trackStops = Min(@ + 1, 2),
                            !.microphoneStreamRef = "stopped"]
             ELSE b
    IN [c EXCEPT !.isSpeechDetected = FALSE]

\* stopAudioMonitoring: each resource is released when its ref holds it, and
\* the ref is cleared.
StopAudioMonitoring(s) ==
    LET a == IF s.animationFrameRef # 0
             THEN [s EXCEPT !.loops[s.animationFrameRef] = NoLoop,
                            !.animationFrameRef = 0]
             ELSE s
        b == IF a.silenceTimerRef # NoPoll
             THEN [a EXCEPT !.silenceTimerRef = NoPoll]
             ELSE a
        c == IF b.microphoneStreamRef # Null
             THEN [b EXCEPT !.trackStops = Min(@ + 1, 2),
                            !.microphoneStreamRef = Null]
             ELSE b
    IN [c EXCEPT !.isSpeechDetected = FALSE]

\* The classification of one frame.
IsSpeaking(lvl, threshold) ==
    lvl.average > threshold \/ lvl.peak > threshold * 2

\* monitorAudioLevels with the speech flag set to the frame's class on every
\* run, without the hold.
MonitorAudioLevelsNoHold(s, c, id, lvl, t) ==
    IF ~s.analyserRef THEN [s EXCEPT !.loops[id] = NoLoop]
    ELSE
    LET loud == IsSpeaking(lvl, c.audioThreshold)
    IN [s EXCEPT !.isSpeechDetected = loud,
                 !.lastSpeechTimeRef = IF loud THEN t ELSE @,
                 !.lastLoudAt = IF loud THEN t ELSE @,
                 !.lastTick = [at |-> t, loud |-> loud,
                               was |-> s.isSpeechDetected],
                 !.animationFrameRef = id,
                 !.loops[id] = [on |-> TRUE,
                                isSpeechDetected |-> c.isSpeechDetected,
                                audioThreshold |-> c.audioThreshold]]

\* monitorAudioLevels with lastSpeechTimeRef written only where the speech
\* flag is switched on.
MonitorAudioLevelsRefreshOnChange(s, c, id, lvl, t) ==
    IF ~s.analyserRef THEN [s EXCEPT !.loops[id] = NoLoop]
    ELSE
    LET loud == IsSpeaking(lvl, c.audioThreshold)
        s1 == IF loud # c.isSpeechDetected
              THEN IF loud
                   THEN [s EXCEPT !.isSpeechDetected = TRUE,
                                  !.lastSpeechTimeRef = t]
                   ELSE IF t - s.lastSpeechTimeRef > SpeechHoldMs
                        THEN [s EXCEPT !.isSpeechDetected = FALSE]
                        ELSE s
              ELSE s
    IN [s1 EXCEPT !.lastLoudAt = IF loud THEN t ELSE @,
                  !.lastTick = [at |-> t, loud |-> loud,
                                was |-> s.isSpeechDetected],
                  !.animationFrameRef = id,
                  !.loops[id] = [on |-> TRUE,
                                 isSpeechDetected |-> c.isSpeechDetected,
                                 audioThreshold |-> c.audioThreshold]]

\* monitorAudioLevels, one run of it: c is the closure of the chain (the
\* isSpeechDetected and audioThreshold of the render that started it), id the
\* chain, lvl the frame read, t Date.now().
MonitorAudioLevels(s, c, id, lvl, t) ==
    IF ~s.analyserRef THEN [s EXCEPT !.loops[id] = NoLoop]
    ELSE
    LET loud == IsSpeaking(lvl, c.audioThreshold)
        s1 == IF loud # c.isSpeechDetected
              THEN IF loud
                   THEN [s EXCEPT !.isSpeechDetected = TRUE,
                                  !.lastSpeechTimeRef = t]
                   ELSE IF t - s.lastSpeechTimeRef > SpeechHoldMs
                        THEN [s EXCEPT !.isSpeechDetected = FALSE]
                        ELSE s
              ELSE s
        s2 == IF loud THEN [s1 EXCEPT !.lastSpeechTimeRef = t] ELSE s1
    IN [s2 EXCEPT !.lastLoudAt = IF loud THEN t ELSE @,
                  !.lastTick = [at |-> t, loud |-> loud,
                                was |-> s.isSpeechDetected],
                  !.animationFrameRef = id,
                  !.loops[id] = [on |-> TRUE,
                                 isSpeechDetected |-> c.isSpeechDetected,
                                 audioThreshold |-> c.audioThreshold]]

\* checkForSilence: c is the closure of the chain (the isRecording and
\* silenceThreshold of the render that started it).
CheckForSilence(s, c, t) ==
    IF ~c.isRecording THEN s
    ELSE IF /\ t - s.lastSpeechTimeRef > c.silenceThreshold
            /\ Len(Trim(s.transcriptRef)) > 0
         THEN StopAudioMonitoring(Hit([s EXCEPT
                                          !.engine = RecognitionStop(@),
                                          !.isRecording = FALSE]))
         ELSE [s EXCEPT !.silenceTimerRef =
                   [due |-> t + SilencePollMs, isRecording |-> c.isRecording,
                    silenceThreshold |-> c.silenceThreshold]]

\* startAudioMonitoring from the await of getUserMedia on: ok says whether
\* the promise resolved.  A rejection is caught inside the function.
StartAudioMonitoring(s, c, ok, lvl, t) ==
    IF ok
    THEN LET s1 == [s EXCEPT
                     !.orphanStreams =
                         IF s.microphoneStreamRef = "live" THEN @ + 1 ELSE @,
                     !.microphoneStreamRef = "live",
                     !.trackStops = 0,
                     !.analyserRef = TRUE]
             s2 == MonitorAudioLevels(s1, c, FreeLoop(s1.loops), lvl, t)
             s3 == [s2 EXCEPT !.lastSpeechTimeRef = t]
         IN CheckForSilence(s3, c, t)
    ELSE [s EXCEPT !.error = "microphone", !.isRecording = FALSE]

\* toggleRecording, start branch, from the await of startAudioMonitoring on.
\* recognition.start() throws on a recognition that has not ended.
ToggleRecordingResume(s, c, ok, lvl, t) ==
    LET s1 == StartAudioMonitoring(s, c, ok, lvl, t)
    IN IF s1.engine = "idle"
       THEN [s1 EXCEPT !.engine = "running", !.results = <<>>,
                       !.isRecording = TRUE, !.lastSpeechTimeRef = t,
                       !.stopHits = 0]
       ELSE StopAudioMonitoring([s1 EXCEPT !.error = "start"])

\* toggleRecording, start branch, up to the await of getUserMedia.
ToggleRecordingBegin(s) ==
    [s EXCEPT !.error = Null, !.transcriptRef = <<>>,
              !.dispatchRequested = FALSE, !.lastLoudAt = -1,
              !.lastTick = NoTick]

\* toggleRecording, stop branch.
ToggleRecordingStop(s) ==
    StopAudioMonitoring(Hit([s EXCEPT !.engine = RecognitionStop(@),
                                      !.isRecording = FALSE]))

\* debounce() without the clearTimeout.
DebouncedTranslateNoClear(s, text, t) ==
    LET timer == [due |-> t + DebounceWaitMs, text |-> text]
    IN [s EXCEPT !.timers = @ \cup {timer},
                 !.timeout = timer,
                 !.dispatchRequested = TRUE,
                 !.requests = IF tracing
                              THEN Append(@, [text |-> text, at |-> t])
                              ELSE @]

\* The function returned by debounce(): any pending timer is cleared and a
\* new one is set for this call's arguments.
DebouncedTranslate(s, text, t) ==
    LET timer == [due |-> t + DebounceWaitMs, text |-> text]
    IN [s EXCEPT !.timers = (@ \ {s.timeout}) \cup {timer},
                 !.timeout = timer,
                 !.dispatchRequested = TRUE,
                 !.requests = IF tracing
                              THEN Append(@, [text |-> text, at |-> t])
                              ELSE @]

\* What the debounced function hands to enhanceTranscriptWithAI: the
\* encrypted payload, the text because encryptText threw, or the text
\* because no encryption was asked for.
PayloadOf(enabled, initialized, encryptOk) ==
    IF enabled /\ initialized
    THEN IF encryptOk THEN "encrypted" ELSE "fallback"
    ELSE "plain"

\* The debounced function without its processingRef guard.
TranslateBeginUnguarded(s, text, encryptOk) ==
    IF Trim(text) = <<>> THEN s
    ELSE [s EXCEPT !.processingRef = TRUE, !.inflight = Append(@, text),
                   !.awaiting = Append(@, "pipeline"),
                   !.sent = IF tracing THEN Append(@, text) ELSE @,
                   !.lastPayload =
                       IF tracing
                       THEN PayloadOf(InitialEncryptionEnabled,
                                      s.encryptionKey, encryptOk)
                       ELSE @]

\* The debounced function, up to the call of enhanceTranscriptWithAI.  The
\* function is the one the first render passed to useRef, so the
\* encryptionEnabled it reads is that render's; the CryptoService is read
\* as it is now.  encryptOk says whether encryptText would resolve.
TranslateBegin(s, text, encryptOk) ==
    IF Trim(text) = <<>> \/ s.processingRef THEN s
    ELSE [s EXCEPT !.processingRef = TRUE, !.inflight = Append(@, text),
                   !.awaiting = Append(@, "pipeline"),
                   !.sent = IF tracing THEN Append(@, text) ELSE @,
                   !.lastPayload =
                       IF tracing
                       THEN PayloadOf(InitialEncryptionEnabled,
                                      s.encryptionKey, encryptOk)
                       ELSE @]

\* A timer of debounce() expires: func(...args) runs with the arguments of
\* the call that set the timer.
TimeoutExpires(s, timer, t, encryptOk) ==
    LET s1 == [s EXCEPT !.timers = @ \ {timer},
                        !.timeout = IF @ = timer THEN NoTimer ELSE @,
                        !.calls = IF tracing
                                  THEN Append(@, [text |-> timer.text, at |-> t])
                                  ELSE @]
    IN TranslateBegin(s1, timer.text, encryptOk)

\* Sequence q without its element i.
Without(q, i) == SubSeq(q, 1, i - 1) \o SubSeq(q, i + 1, Len(q))

\* The finally without its last statement: processingRef stays set.
TranslateFinallyKeepsRef(s, i) ==
    [s EXCEPT !.inflight = Without(@, i), !.awaiting = Without(@, i)]

\* The finally of the debounced function, or of addSampleTranscript, for
\* dispatch i: setIsProcessing(false) and processingRef.current = false.
TranslateFinally(s, i) ==
    [s EXCEPT !.processingRef = FALSE,
              !.inflight = Without(@, i), !.awaiting = Without(@, i)]

\* The debounced function, or addSampleTranscript, from the pipeline's
\* answer to dispatch i on.  An answer ends the try block and the finally
\* runs; a failure enters the catch, which sets the error and awaits
\* checkAPIStatus(), the finally still to come.
TranslateEnd(s, i, ok) ==
    IF ok THEN TranslateFinally(s, i)
    ELSE [s EXCEPT !.error = "processing",
                   !.awaiting = [@ EXCEPT ![i] = "checkAPIStatus"]]

\* The catch of dispatch i from the answer to one of its two awaits on:
\* after checkAPIStatus() it awaits getCurrentProvider(), after that, or
\* when the awaited call rejects, the finally runs.
TranslateCatch(s, i, ok) ==
    IF ok /\ s.awaiting[i] = "checkAPIStatus"
    THEN [s EXCEPT !.awaiting = [@ EXCEPT ![i] = "getCurrentProvider"]]
    ELSE TranslateFinally(s, i)

\* addSampleTranscript up to its await: the flag is set whatever it was.
AddSampleTranscript(s, sampleText) ==
    [s EXCEPT !.processingRef = TRUE, !.inflight = Append(@, sampleText),
              !.awaiting = Append(@, "pipeline"),
              !.sent = IF tracing THEN Append(@, sampleText) ELSE @,
              !.lastPayload = IF tracing THEN "plain" ELSE @]

\* recognition.onresult
OnResult(s, rs, t) ==
    LET transcript == TranscriptOf(rs)
        s1 == [s EXCEPT !.lastSpeechTimeRef = t, !.results = rs]
    IN IF Trim(transcript) # <<>>
       THEN LET s2 == [s1 EXCEPT !.transcriptRef = transcript]
            IN IF AnyFinal(rs) THEN DebouncedTranslate(s2, transcript, t)
               ELSE s2
       ELSE s1

\* recognition.onerror
OnError(s) ==
    StopAudioMonitoring(Hit([s EXCEPT !.error = "speech",
                                      !.isRecording = FALSE]))

\* recognition.onend: c is the isRecording of the render whose effect
\* installed the handler.
OnEnd(s, c, t) ==
    IF c
    THEN LET s1 == StopAudioMonitoring(Hit([s EXCEPT !.isRecording = FALSE]))
         IN IF s1.transcriptRef # <<>> /\ ~s1.processingRef
            THEN DebouncedTranslate(s1, s1.transcriptRef, t)
            ELSE s1
    ELSE s

\* ------------------------------------------------- the server module
\* switchToNextProvider: the order of preference.
Providers == << "groq", "openai", "fallback" >>
ProviderNames == {"openai", "groq", "fallback"}

\* The providers that rateLimits has an entry for.
RateLimited == {"groq", "openai"}

\* The substrings that the catch blocks look for in an error message, as
\* a message can spell them; a message is written as the set of those it
\* holds, and it can hold several or none.
Phrases == {"quota", "billing", "rate limit", "Rate limit", "too many requests"}

\* The error messages that requests are let fail with: one holding none of
\* the phrases, one for each phrase, and the one of Groq's answer 429
\* ("Rate limit reached for model ... /settings/billing").
Messages ==
    {{}} \cup {{p} : p \in Phrases} \cup {{"Rate limit", "billing"}}

\* How a request to a provider can end: with a text, or with an error.
Outcomes ==
    {[ok |-> TRUE, message |-> {}]}
        \cup {[ok |-> FALSE, message |-> m] : m \in Messages}

\* makeRateLimitedRequest: the errors it takes for a rate limit error, by
\* the lower-cased message.
RateLimitErrors ==
    {o \in Outcomes :
        /\ ~o.ok
        /\ LET lower == {IF p = "Rate limit" THEN "rate limit" ELSE p :
                             p \in o.message}
           IN "rate limit" \in lower \/ "too many requests" \in lower}

NoCall ==
    [ op |-> "none", arg |-> "none", pc |-> "idle", provider |-> "none",
      retryCount |-> 0, wake |-> -1, since |-> -1, attempts |-> 0,
      ret |-> "none" ]

Max(a, b) == IF a > b THEN a ELSE b

\* Math.pow(2, n)
RECURSIVE Pow2(_)
Pow2(n) == IF n = 0 THEN 1 ELSE 2 * Pow2(n - 1)

\* rateLimits[provider].maxRequestsPerMinute
MaxRequestsPerMinute(provider) ==
    IF provider = "groq" THEN GroqMaxRequestsPerMinute
    ELSE OpenaiMaxRequestsPerMinute

\* config?.retryDelayMs || 1000
RetryDelayMs(provider) ==
    IF provider = "groq" THEN GroqRetryDelayMs
    ELSE IF provider = "openai" THEN OpenaiRetryDelayMs
    ELSE DefaultRetryDelayMs

\* checkRateLimit refusing only above the limit.
CheckRateLimitAboveLimit(ts, provider, t) ==
    IF provider \notin RateLimited
    THEN [allowed |-> TRUE, retryAfter |-> 0, timestamps |-> ts]
    ELSE LET Recent(x) == t - x < RateWindowMs
             kept == SelectSeq(ts[provider], Recent)
         IN IF Len(kept) > MaxRequestsPerMinute(provider)
            THEN [allowed |-> FALSE,
                  retryAfter |-> Max(MinRetryAfterMs,
                                     RateWindowMs - (t - kept[1])
                                         + RetryBufferMs),
                  timestamps |-> [ts EXCEPT ![provider] = kept]]
            ELSE [allowed |-> TRUE, retryAfter |-> 0,
                  timestamps |-> [ts EXCEPT ![provider] = Append(kept, t)]]

\* checkRateLimit: the timestamps older than a minute are dropped; at the
\* limit the request is refused, with the time to wait; below it the
\* request's time is recorded.
CheckRateLimit(ts, provider, t) ==
    IF provider \notin RateLimited
    THEN [allowed |-> TRUE, retryAfter |-> 0, timestamps |-> ts]
    ELSE LET Recent(x) == t - x < RateWindowMs
             kept == SelectSeq(ts[provider], Recent)
         IN IF Len(kept) >= MaxRequestsPerMinute(provider)
            THEN [allowed |-> FALSE,
                  retryAfter |-> Max(MinRetryAfterMs,
                                     RateWindowMs - (t - kept[1])
                                         + RetryBufferMs),
                  timestamps |-> [ts EXCEPT ![provider] = kept]]
            ELSE [allowed |-> TRUE, retryAfter |-> 0,
                  timestamps |-> [ts EXCEPT ![provider] = Append(kept, t)]]

\* switchToNextProvider without the skip of the current provider.
SwitchToNextProviderNoSkip(status, current) ==
    LET candidates == {i \in 1..Len(Providers) : status[Providers[i]]}
    IN IF candidates = {} THEN "fallback"
       ELSE Providers[CHOOSE i \in candidates : \A j \in candidates : i <= j]

\* switchToNextProvider: the first provider in the order of preference that
\* is not the current one and is marked available, else fallback; the
\* result is the new currentProvider.
SwitchToNextProvider(status, current) ==
    LET candidates == {i \in 1..Len(Providers) :
                          Providers[i] # current /\ status[Providers[i]]}
    IN IF candidates = {} THEN "fallback"
       ELSE Providers[CHOOSE i \in candidates : \A j \in candidates : i <= j]

\* A call returns.
Return(x, ret) ==
    [x EXCEPT !.call.pc = "done", !.call.ret = ret,
              !.call.provider = "none", !.call.retryCount = 0,
              !.call.wake = -1, !.call.since = -1]

\* The provider whose model the call's requestFn asks for: enhance and
\* translate read currentProvider when requestFn runs, setAIProvider uses
\* its argument, checkAPIStatus names groq.
ModelOf(x) ==
    IF x.call.op \in {"enhanceTranscriptWithAI", "translateText"}
    THEN x.currentProvider
    ELSE IF x.call.op = "setAIProvider" THEN x.call.arg
    ELSE "groq"

RECURSIVE Thrown(_, _, _)

\* makeRateLimitedRequest(provider, requestFn, retryCount), up to its first
\* await (the sleep, or the request) or to the error that getModel throws
\* for fallback, which is rethrown to the caller.
MakeRateLimitedRequest(x, provider, retryCount, t) ==
    LET rateLimit == CheckRateLimit(x.requestTimestamps, provider, t)
        x1 == [x EXCEPT !.requestTimestamps = rateLimit.timestamps,
                        !.call.provider = provider,
                        !.call.retryCount = retryCount]
    IN IF ~rateLimit.allowed
       THEN [x1 EXCEPT !.call.pc = "limited",
                       !.call.wake = t + rateLimit.retryAfter,
                       !.call.since = t]
       ELSE LET x2 == [x1 EXCEPT !.call.attempts = @ + 1]
            IN IF ModelOf(x2) = "fallback"
               THEN Thrown(x2, {}, t)
               ELSE [x2 EXCEPT !.call.pc = "request", !.call.wake = -1,
                               !.call.since = -1]

\* enhanceTranscriptWithAI, from its entry to its first await or its return.
EnhanceTranscriptWithAI(x, t) ==
    IF x.currentProvider = "fallback" THEN Return(x, "simulated")
    ELSE MakeRateLimitedRequest([x EXCEPT !.call.attempts = 0],
                                x.currentProvider, 0, t)

\* translateText, from its entry to its first await or its return.
TranslateText(x, t) ==
    IF x.currentProvider = "fallback" THEN Return(x, "simulated")
    ELSE MakeRateLimitedRequest([x EXCEPT !.call.attempts = 0],
                                x.currentProvider, 0, t)

\* setAIProvider after the probe, or where no probe is made.
SetAIProviderTail(x) ==
    IF x.providerStatus[x.call.arg] \/ x.call.arg = "fallback"
    THEN Return([x EXCEPT !.currentProvider = x.call.arg], "true")
    ELSE Return(x, "false")

\* setAIProvider probing openai as it probes groq.
SetAIProviderProbesOpenai(x, t) ==
    IF x.call.arg = x.currentProvider THEN Return(x, "true")
    ELSE IF ~x.providerStatus[x.call.arg] /\ x.call.arg # "fallback"
         THEN MakeRateLimitedRequest([x EXCEPT !.call.attempts = 0],
                                     x.call.arg, 0, t)
         ELSE SetAIProviderTail(x)

\* setAIProvider(provider), from its entry to its first await or its return.
SetAIProvider(x, t) ==
    IF x.call.arg = x.currentProvider THEN Return(x, "true")
    ELSE IF /\ ~x.providerStatus[x.call.arg]
            /\ x.call.arg # "fallback" /\ x.call.arg # "openai"
         THEN MakeRateLimitedRequest([x EXCEPT !.call.attempts = 0],
                                     x.call.arg, 0, t)
         ELSE SetAIProviderTail(x)

\* checkAPIStatus after the probe of groq, without the switch away from an
\* unavailable current provider.
CheckAPIStatusTailNoSwitch(x) ==
    [x EXCEPT !.call.pc = "getCurrentProvider", !.call.provider = "none",
              !.call.retryCount = 0, !.call.wake = -1, !.call.since = -1]

\* checkAPIStatus after the probe of groq, up to its await of
\* getCurrentProvider.
CheckAPIStatusTail(x) ==
    LET x1 == IF ~x.providerStatus[x.currentProvider]
              THEN [x EXCEPT !.currentProvider =
                        SwitchToNextProvider(x.providerStatus,
                                             x.currentProvider)]
              ELSE x
    IN [x1 EXCEPT !.call.pc = "getCurrentProvider", !.call.provider = "none",
                  !.call.retryCount = 0, !.call.wake = -1, !.call.since = -1]

\* checkAPIStatus from the answer of getCurrentProvider on: the status it
\* returns names the currentProvider of that moment.
CheckAPIStatusReturn(x) == Return(x, x.currentProvider)

\* The value that checkAPIStatus returns: providerStatus and
\* currentProvider as they are then.
StatusOf(status, current) == [providers |-> status, currentProvider |-> current]

\* The values that it can return. openai is never marked available, so it
\* is never current. groq and fallback are each marked available or not:
\* the catch of a failed request marks the provider that is current then,
\* fallback included. groq is current only while it is marked available;
\* fallback is current whether it is marked available or not.
Statuses ==
    {s \in {StatusOf([p \in ProviderNames |->
                          (p = "groq" /\ g) \/ (p = "fallback" /\ f)], c) :
                g \in BOOLEAN, f \in BOOLEAN, c \in {"groq", "fallback"}} :
        s.currentProvider = "groq" => s.providers["groq"]}

\* The status that checkApi sets in its catch; checkAPIStatus answers the
\* same providers where the probe of groq has failed.
DemoStatus == StatusOf([p \in ProviderNames |-> p = "fallback"], "fallback")

\* apiStatus before an answer is stored: null.
NoStatus == StatusOf([p \in ProviderNames |-> FALSE], "none")

\* checkAPIStatus, from its entry to its first await.
CheckAPIStatus(x, t) ==
    IF x.providerStatus["groq"]
    THEN MakeRateLimitedRequest([x EXCEPT !.call.attempts = 0], "groq", 0, t)
    ELSE CheckAPIStatusTail(x)

\* makeRateLimitedRequest returned to the call that awaited it.
Resolved(x, t) ==
    IF x.call.op \in {"enhanceTranscriptWithAI", "translateText"}
    THEN Return(x, "text")
    ELSE IF x.call.op = "setAIProvider"
    THEN SetAIProviderTail([x EXCEPT !.providerStatus[x.call.arg] = TRUE])
    ELSE CheckAPIStatusTail(x)

\* The error is passed on to the caller of the exported function.
ThrownRethrows(x, e, t) == Return(x, "thrown")

\* makeRateLimitedRequest threw to the call that awaited it: the catch of
\* that call.  e is the error message.
Thrown(x, e, t) ==
    IF x.call.op \in {"enhanceTranscriptWithAI", "translateText"}
    THEN LET marks == IF x.call.op = "translateText"
                      THEN {"quota", "billing", "rate limit"}
                      ELSE {"quota", "billing"}
             x1 == IF e \cap marks # {}
                   THEN [x EXCEPT !.providerStatus[x.currentProvider] = FALSE]
                   ELSE x
             nextProvider == SwitchToNextProvider(x1.providerStatus,
                                                  x1.currentProvider)
             x2 == [x1 EXCEPT !.currentProvider = nextProvider]
         IN IF nextProvider = "fallback" THEN Return(x2, "simulated")
            ELSE IF x.call.op = "translateText" THEN TranslateText(x2, t)
            ELSE EnhanceTranscriptWithAI(x2, t)
    ELSE IF x.call.op = "setAIProvider" THEN Return(x, "false")
    ELSE CheckAPIStatusTail([x EXCEPT !.providerStatus["groq"] = FALSE])

\* The catch of makeRateLimitedRequest with one retry more than maxRetries
\* and a wait that does not grow.
RequestSettlesFlatRetry(x, outcome, t) ==
    IF outcome.ok THEN Resolved(x, t)
    ELSE IF outcome \in RateLimitErrors
    THEN IF x.call.retryCount > MaxRetries
         THEN Thrown(x, outcome.message \cup {"Rate limit"}, t)
         ELSE [x EXCEPT !.call.pc = "backoff",
                        !.call.wake = t + RetryDelayMs(x.call.provider),
                        !.call.since = t]
    ELSE Thrown(x, outcome.message, t)

\* makeRateLimitedRequest from the end of its request on: the text is
\* returned; a rate limit error is retried after the backoff delay unless
\* maxRetries retries were made, and then thrown anew with the message
\* "Rate limit exceeded after ... retries: " and the message it had; any
\* other error is rethrown.
RequestSettles(x, outcome, t) ==
    IF outcome.ok THEN Resolved(x, t)
    ELSE IF outcome \in RateLimitErrors
    THEN IF x.call.retryCount >= MaxRetries
         THEN Thrown(x, outcome.message \cup {"Rate limit"}, t)
         ELSE [x EXCEPT !.call.pc = "backoff",
                        !.call.wake = t + RetryDelayMs(x.call.provider)
                                              * Pow2(x.call.retryCount),
                        !.call.since = t]
    ELSE Thrown(x, outcome.message, t)

\* makeRateLimitedRequest from the end of a sleep on: the recursive call,
\* with the same retryCount after a wait for the rate limit, with one more
\* after a backoff.
SleepEnds(x, t) ==
    MakeRateLimitedRequest(x, x.call.provider,
                           IF x.call.pc = "backoff"
                           THEN x.call.retryCount + 1 ELSE x.call.retryCount,
                           t)

\* ------------------------------------------------- the crypto service
\* A key is a number; 0 stands for null.  generateKeyId draws 16 random
\* bytes: the key id of a key is written as the number of that key, an id
\* is never drawn twice.
KeyNumbers == 1..MaxKeys
Texts == {"a", "b"}

\* encryptionKey and keyId of the CryptoService as constructed.
NoKeys == [encryptionKey |-> 0, keyId |-> 0]

\* What encryptText returns: the text as encrypted with key, and a key id.
\* The same record carries the key id that initialize returns and the text
\* that decryptText returns.
NoData == [key |-> 0, text |-> "", keyId |-> 0]

\* A call of an async method of the CryptoService: key is the key handed
\* to crypto.subtle, payload the argument of decryptText, owner says
\* whether the encryption panel made the call, and whether that panel has
\* been unmounted since.
NoCryptoCall ==
    [ op |-> "none", owner |-> "none", pc |-> "idle", key |-> 0,
      text |-> "", payload |-> NoData, ret |-> NoData, err |-> "none" ]

\* The panel as mounted in a browser with the Web Crypto API while the
\* service holds no key, and the latest call of onEncryptionChange.
NoPanel ==
    [ isSupported |-> TRUE, isEnabled |-> FALSE, keyId |-> 0,
      isInitializing |-> FALSE, error |-> "none" ]
NotNotified == [called |-> FALSE, enabled |-> FALSE, keyId |-> 0]

\* isInitialized()
IsInitialized(service) == service.encryptionKey # 0 /\ service.keyId # 0

\* EncryptionStatus is mounted: its useState values and its mount effect,
\* which shows the panel enabled where the service is initialized and does
\* not call onEncryptionChange.
EncryptionStatus(service) ==
    IF IsInitialized(service)
    THEN [NoPanel EXCEPT !.isEnabled = TRUE, !.keyId = service.keyId]
    ELSE NoPanel

\* A call of a method throws, or returns.
Throw(y, e) == [y EXCEPT !.call.pc = "done", !.call.err = e]
Resolve(y, ret) == [y EXCEPT !.call.pc = "done", !.call.ret = ret]

\* initialize, up to its await of generateKey.
Initialize(y) == [y EXCEPT !.call.op = "initialize", !.call.pc = "generateKey"]

\* initialize storing the key without a key id.
InitializeResumesNoKeyId(y, ok, k) ==
    IF ok
    THEN Resolve([y EXCEPT !.service.encryptionKey = k],
                 [NoData EXCEPT !.keyId = k])
    ELSE Throw(y, "Encryption initialization failed")

\* initialize from the end of generateKey on: the key and its new id are
\* stored and the id is returned; a rejection is rethrown.
InitializeResumes(y, ok, k) ==
    IF ok
    THEN Resolve([y EXCEPT !.service = [encryptionKey |-> k, keyId |-> k]],
                 [NoData EXCEPT !.keyId = k])
    ELSE Throw(y, "Encryption initialization failed")

\* clearKeys
ClearKeys(y) == [y EXCEPT !.service = NoKeys]

\* encryptText, up to its await of crypto.subtle.encrypt, which is handed
\* the key held now.
EncryptText(y, plaintext) ==
    LET y1 == [y EXCEPT !.call.op = "encryptText", !.call.text = plaintext]
    IN IF y.service.encryptionKey = 0 \/ y.service.keyId = 0
       THEN Throw(y1, "Encryption not initialized")
       ELSE [y1 EXCEPT !.call.pc = "encrypt",
                       !.call.key = y.service.encryptionKey]

\* encryptText from the end of crypto.subtle.encrypt on: the data comes
\* with this.keyId as it is now.
EncryptTextResumes(y, ok) ==
    IF ok
    THEN Resolve(y, [key |-> y.call.key, text |-> y.call.text,
                     keyId |-> y.service.keyId])
    ELSE Throw(y, "Failed to encrypt data")

\* decryptText without the comparison of the key ids.
DecryptTextAnyKeyId(y, payload) ==
    LET y1 == [y EXCEPT !.call.op = "decryptText", !.call.payload = payload]
    IN IF y.service.encryptionKey = 0 \/ y.service.keyId = 0
       THEN Throw(y1, "Encryption not initialized")
       ELSE [y1 EXCEPT !.call.pc = "decrypt",
                       !.call.key = y.service.encryptionKey]

\* decryptText(encryptedData, iv, keyId), up to its await of
\* crypto.subtle.decrypt, which is handed the key held now.
DecryptText(y, payload) ==
    LET y1 == [y EXCEPT !.call.op = "decryptText", !.call.payload = payload]
    IN IF y.service.encryptionKey = 0 \/ y.service.keyId = 0
       THEN Throw(y1, "Encryption not initialized")
       ELSE IF payload.keyId # y.service.keyId
       THEN Throw(y1, "Key ID mismatch")
       ELSE [y1 EXCEPT !.call.pc = "decrypt",
                       !.call.key = y.service.encryptionKey]

\* decryptText from the end of crypto.subtle.decrypt on: AES-GCM yields the
\* text under the key that encrypted it and rejects the data under another.
DecryptTextResumes(y) ==
    IF y.call.key = y.call.payload.key
    THEN Resolve(y, [NoData EXCEPT !.text = y.call.payload.text])
    ELSE Throw(y, "Failed to decrypt data")

\* handleEncryptionChange(enabled, keyId), the onEncryptionChange of the
\* panel; its setters change nothing once the component is unmounted.
HandleEncryptionChange(y, enabled, keyId) ==
    [y EXCEPT !.encryptionEnabled = IF y.mounted THEN enabled ELSE @,
              !.notified = [called |-> TRUE, enabled |-> enabled,
                            keyId |-> keyId]]

\* enableEncryption, up to its await of initialize.
PanelEnableEncryption(y) ==
    IF ~y.panel.isSupported
    THEN [y EXCEPT !.panel.error = "not supported"]
    ELSE Initialize([y EXCEPT !.panel.isInitializing = TRUE,
                              !.panel.error = "none",
                              !.call.owner = "panel"])

\* enableEncryption from the end of initialize on.  The setters of a panel
\* that has been unmounted meanwhile change nothing; its onEncryptionChange
\* is called all the same.
PanelEnableEncryptionResumes(y) ==
    LET live == y.call.owner = "panel"
        y1 == IF y.call.err = "none"
              THEN HandleEncryptionChange(
                       IF live
                       THEN [y EXCEPT !.panel.isEnabled = TRUE,
                                      !.panel.keyId = y.call.ret.keyId]
                       ELSE y,
                       TRUE, y.call.ret.keyId)
              ELSE IF live
              THEN [y EXCEPT !.panel.error = "Failed to initialize encryption"]
              ELSE y
    IN [y1 EXCEPT !.panel.isInitializing = IF live THEN FALSE ELSE @,
                  !.call = NoCryptoCall]

\* disableEncryption
PanelDisableEncryption(y) ==
    HandleEncryptionChange(
        [ClearKeys(y) EXCEPT !.panel.isEnabled = FALSE, !.panel.keyId = 0],
        FALSE, 0)

\* ------------------------------------------------------------------- Init
\* The CryptoService as constructed; no panel is mounted.
InitCrypto ==
    /\ cryptoService = NoKeys
    /\ cryptoCalls = [c \in 1..MaxCryptoCalls |-> NoCryptoCall]
    /\ panel = NoPanel
    /\ notified = NotNotified

\* No request sent yet and no call under way.
InitLimiter ==
    /\ requestTimestamps = [p \in RateLimited |-> <<>>]
    /\ serverCalls = [c \in 1..MaxCalls |-> NoCall]

\* The server module as loaded.
InitService ==
    /\ providerStatus = [p \in ProviderNames |-> p # "openai"]
    /\ currentProvider = "groq"
    /\ InitLimiter

\* The component after its first render and its mount effects: checkApi
\* awaits checkAPIStatus(), the spinner is rendered.
InitClient ==
    /\ now = 0
    /\ mounted = TRUE
    /\ isCheckingApi = TRUE
    /\ sheetOpen = FALSE
    /\ showAdvancedSettings = FALSE
    /\ apiStatus = NoStatus
    /\ apiChecks = << [run |-> "checkApi", at |-> "checkAPIStatus"] >>
    /\ changing = <<>>
    /\ selected = "none"
    /\ isRecording = FALSE
    /\ isSpeechDetected = FALSE
    /\ error = Null
    /\ audioThreshold = DEFAULT_AUDIO_THRESHOLD
    /\ silenceThreshold = DEFAULT_SILENCE_THRESHOLD
    /\ processingRef = FALSE
    /\ inflight = <<>>
    /\ awaiting = <<>>
    /\ transcriptRef = <<>>
    /\ lastSpeechTimeRef = 0
    /\ timers = {}
    /\ timeout = NoTimer
    /\ engine = "idle"
    /\ results = <<>>
    /\ handlerIsRecording = FALSE
    /\ orphan = NoOrphan
    /\ pending = <<>>
    /\ analyserRef = FALSE
    /\ loops = [i \in LoopIds |-> NoLoop]
    /\ animationFrameRef = 0
    /\ silenceTimerRef = NoPoll
    /\ microphoneStreamRef = Null
    /\ orphanStreams = 0
    /\ trackStops = 0
    /\ dispatchRequested = FALSE
    /\ stopHits = 0
    /\ requests = <<>>
    /\ calls = <<>>
    /\ sent = <<>>
    /\ lastLoudAt = -1
    /\ lastTick = NoTick
    /\ encryptionEnabled = InitialEncryptionEnabled
    /\ encryptionKey = FALSE
    /\ lastPayload = "none"
    /\ InitCrypto

\* The component as mounted and the server module as loaded.
InitComponent == InitClient /\ InitService

\* The mounted component, nothing recorded.
Init == InitComponent /\ tracing = FALSE

\* ------------------------------------------------- what is rendered
\* The component returns the spinner while isCheckingApi (lines 582-589):
\* the microphone, the sample button, the language selects and the sheet
\* are rendered otherwise.
PageShown == mounted /\ ~isCheckingApi

\* ProviderSelector and EncryptionStatus are rendered inside SheetContent,
\* where apiStatus is set.
PanelMounted == PageShown /\ sheetOpen /\ apiStatus # NoStatus

\* ProviderSelector: isChanging of the instance that is rendered.
IsChanging == \E i \in 1..Len(changing) : changing[i] = "mounted"

\* The sliders are rendered inside it where showAdvancedSettings is set.
SlidersShown == PanelMounted /\ showAdvancedSettings

\* The page is replaced or removed: the sheet goes with its content, the
\* calls that the panel and the selector made go on without them.
PageUnmounts ==
    /\ sheetOpen' = FALSE
    /\ panel' = NoPanel
    /\ cryptoCalls' =
          [c \in 1..MaxCryptoCalls |->
              IF cryptoCalls[c].owner = "panel"
              THEN [cryptoCalls[c] EXCEPT !.owner = "unmounted"]
              ELSE cryptoCalls[c]]
    /\ changing' = [i \in 1..Len(changing) |-> "unmounted"]
    /\ selected' = "none"

\* ---------------------------------------------------------------- actions
Settings == << audioThreshold, silenceThreshold, encryptionEnabled,
              encryptionKey >>

\* The values of the current render that a start request carries along.
Closure ==
    [ isRecording |-> isRecording, isSpeechDetected |-> isSpeechDetected,
      audioThreshold |-> audioThreshold, silenceThreshold |-> silenceThreshold ]

Remove(q, i) == SubSeq(q, 1, i - 1) \o SubSeq(q, i + 1, Len(q))

\* A click on the microphone button while the render shows no recording.
\* The button is disabled while isProcessing.
ToggleStart ==
    /\ PageShown /\ ~processingRef /\ ~isRecording
    /\ Len(pending) + Cardinality(ActiveLoops(loops)) < MaxStarts
    /\ orphanStreams < MaxStarts
    /\ Commit(ToggleRecordingBegin(Cur), TRUE)
    /\ pending' = Append(pending, Closure)
    /\ UNCHANGED << now, mounted, Settings, tracing, Service, Crypto, Page, handlerIsRecording, orphan >>

\* getUserMedia resolves for a start request; the rest of that request runs.
AcquireOk(i, lvl) ==
    /\ i \in 1..Len(pending)
    /\ Commit(ToggleRecordingResume(Cur, pending[i], TRUE, lvl, now), mounted)
    /\ pending' = Remove(pending, i)
    /\ UNCHANGED << now, mounted, Settings, tracing, Service, Crypto, Page, handlerIsRecording, orphan >>

\* getUserMedia rejects for a start request; the rest of that request runs.
AcquireFail(i) ==
    /\ i \in 1..Len(pending)
    /\ Commit(ToggleRecordingResume(Cur, pending[i], FALSE,
                                    [average |-> 0, peak |-> 0], now), mounted)
    /\ pending' = Remove(pending, i)
    /\ UNCHANGED << now, mounted, Settings, tracing, Service, Crypto, Page, handlerIsRecording, orphan >>

\* A click on the microphone button while the render shows a recording.
ToggleStop ==
    /\ PageShown /\ ~processingRef /\ isRecording
    /\ Commit(ToggleRecordingStop(Cur), TRUE)
    /\ UNCHANGED << now, mounted, Settings, tracing, Service, Crypto, Page, handlerIsRecording, orphan,
                    pending >>

\* An animation frame runs the scheduled callback of a sampling chain.
SampleTick(id, lvl) ==
    /\ id \in LoopIds /\ loops[id].on
    /\ Commit(MonitorAudioLevels(Cur, loops[id], id, lvl, now), mounted)
    /\ UNCHANGED << now, mounted, Settings, tracing, Service, Crypto, Page, handlerIsRecording, orphan,
                    pending >>

\* The results list after the engine adds a result or revises its last,
\* still interim, result.
NextResults(rs, w, f) ==
    IF rs # <<>> /\ ~rs[Len(rs)].f
    THEN [rs EXCEPT ![Len(rs)] = [t |-> w, f |-> f]]
    ELSE Append(rs, [t |-> w, f |-> f])

\* The engine delivers a result event; after stop() only final results.
EngineResult(w, f, cap) ==
    /\ engine \in {"running", "stopping"}
    /\ engine = "stopping" => f
    /\ Len(NextResults(results, w, f)) <= cap
    /\ Commit(OnResult(Cur, NextResults(results, w, f), now), mounted)
    /\ UNCHANGED << now, mounted, Settings, tracing, Service, Crypto, Page, handlerIsRecording, orphan,
                    pending >>

\* The engine reports an error; its end event is still to come.
EngineError ==
    /\ engine \in {"running", "stopping", "aborted"}
    /\ Commit(OnError([Cur EXCEPT !.engine = "ending"]), mounted)
    /\ UNCHANGED << now, mounted, Settings, tracing, Service, Crypto, Page, handlerIsRecording, orphan,
                    pending >>

\* The engine delivers its end event.
EngineEnd ==
    /\ engine \in {"running", "stopping", "ending", "aborted"}
    /\ Commit(OnEnd([Cur EXCEPT !.engine = "idle"], handlerIsRecording, now),
              mounted)
    /\ UNCHANGED << now, mounted, Settings, tracing, Service, Crypto, Page, handlerIsRecording, orphan,
                    pending >>

\* The error event of a recognition object that a language change aborted
\* and replaced; it still carries the handlers installed on it.
OrphanError ==
    /\ orphan.phase = "aborted"
    /\ Commit(OnError(Cur), mounted)
    /\ orphan' = [orphan EXCEPT !.phase = "ending"]
    /\ UNCHANGED << now, mounted, Settings, tracing, Service, Crypto, Page, handlerIsRecording, pending >>

\* The end event of such an object.
OrphanEnd ==
    /\ orphan.phase \in {"aborted", "ending"}
    /\ Commit(OnEnd(Cur, orphan.isRecording, now), mounted)
    /\ orphan' = NoOrphan
    /\ UNCHANGED << now, mounted, Settings, tracing, Service, Crypto, Page, handlerIsRecording, pending >>

\* The source or target language is changed: the effect's cleanup aborts the
\* recognition object and the effect installs a new one, whose handlers
\* capture the current render's isRecording.
ChangeLanguage ==
    /\ PageShown
    /\ orphan = NoOrphan \/ engine = "idle"
    /\ orphan' = IF engine = "idle" THEN orphan
                 ELSE [phase |-> "aborted", isRecording |-> handlerIsRecording]
    /\ engine' = "idle"
    /\ results' = <<>>
    /\ handlerIsRecording' = isRecording
    /\ UNCHANGED << now, mounted, isRecording, isSpeechDetected, error,
                    Settings, tracing, Service, Crypto, Page, timers, requests, calls, stopHits,
                    sent, lastLoudAt, lastTick, lastPayload,
                    processingRef, inflight, awaiting, transcriptRef,
                    lastSpeechTimeRef, timeout, pending, analyserRef, loops,
                    animationFrameRef, silenceTimerRef, microphoneStreamRef,
                    orphanStreams, trackStops, dispatchRequested >>

\* The component unmounts: the cleanup effects run.
Unmount ==
    /\ mounted
    /\ mounted' = FALSE
    /\ Commit(StopAudioMonitoring(Hit([Cur EXCEPT
                                          !.engine = RecognitionAbort(@)])),
              FALSE)
    /\ PageUnmounts
    /\ UNCHANGED << now, Settings, tracing, Service, cryptoService, notified,
                    isCheckingApi, showAdvancedSettings, apiStatus, apiChecks,
                    handlerIsRecording, orphan, pending >>

\* The debounce timer expires and the debounced function starts.
DebounceFire ==
    /\ \E timer \in timers, encryptOk \in BOOLEAN :
          /\ timer.due <= now
          /\ Commit(TimeoutExpires(Cur, timer, now, encryptOk), mounted)
    /\ UNCHANGED << now, mounted, Settings, tracing, Service, Crypto, Page, handlerIsRecording, orphan,
                    pending >>

\* The pipeline answers the dispatch in flight, or fails.
DispatchDone(ok) ==
    /\ \E i \in 1..Len(inflight) :
          /\ awaiting[i] = "pipeline"
          /\ Commit(TranslateEnd(Cur, i, ok), mounted)
    /\ UNCHANGED << now, mounted, Settings, tracing, Service, Crypto, Page, handlerIsRecording, orphan,
                    pending >>

\* The server answers the call that the catch of a failed dispatch awaits,
\* or the call rejects.  status is what checkAPIStatus() answers: the catch
\* stores it in apiStatus.
CatchResumes(ok, status) ==
    /\ \E i \in 1..Len(inflight) :
          /\ awaiting[i] # "pipeline"
          /\ Commit(TranslateCatch(Cur, i, ok), mounted)
          /\ apiStatus' = IF ok /\ awaiting[i] = "checkAPIStatus" /\ mounted
                          THEN status ELSE apiStatus
    /\ UNCHANGED << now, mounted, Settings, tracing, Service, Crypto,
                    isCheckingApi, sheetOpen, showAdvancedSettings,
                    apiChecks, changing, selected, handlerIsRecording,
                    orphan, pending >>

\* A click on the sample button, which is disabled while isProcessing.
AddSample(sampleText) ==
    /\ PageShown /\ ~processingRef
    /\ Commit(AddSampleTranscript(Cur, sampleText), TRUE)
    /\ UNCHANGED << now, mounted, Settings, tracing, Service, Crypto, Page, handlerIsRecording, orphan,
                    pending >>

\* The audio threshold slider is moved.
SetAudioThreshold(v) ==
    /\ SlidersShown /\ v # audioThreshold
    /\ audioThreshold' = v
    /\ UNCHANGED << now, mounted, isRecording, isSpeechDetected, error,
                    silenceThreshold, tracing, Service, Crypto, Page, timers, requests, calls,
                    stopHits, sent, lastLoudAt, lastTick, processingRef, inflight, awaiting,
                    transcriptRef, lastSpeechTimeRef, timeout, engine, results,
                    handlerIsRecording, orphan, pending, analyserRef, loops,
                    animationFrameRef, silenceTimerRef, microphoneStreamRef,
                    orphanStreams, trackStops, dispatchRequested,
                    encryptionEnabled, encryptionKey, lastPayload >>

\* The silence timeout slider is moved.
SetSilenceThreshold(v) ==
    /\ SlidersShown /\ v # silenceThreshold
    /\ silenceThreshold' = v
    /\ UNCHANGED << now, mounted, isRecording, isSpeechDetected, error,
                    audioThreshold, tracing, Service, Crypto, Page, timers, requests, calls,
                    stopHits, sent, lastLoudAt, lastTick, processingRef, inflight, awaiting,
                    transcriptRef, lastSpeechTimeRef, timeout, engine, results,
                    handlerIsRecording, orphan, pending, analyserRef, loops,
                    animationFrameRef, silenceTimerRef, microphoneStreamRef,
                    orphanStreams, trackStops, dispatchRequested,
                    encryptionEnabled, encryptionKey, lastPayload >>

\* Time passes, by at most step, but not past a timer that is due nor past
\* the horizon.
TimerDue(tm, horizon) == IF tm.due >= 0 THEN tm.due ELSE horizon
RECURSIVE FirstDue(_, _)
FirstDue(tms, horizon) ==
    IF tms = {} THEN horizon
    ELSE LET tm == CHOOSE x \in tms : TRUE
         IN Min(TimerDue(tm, horizon), FirstDue(tms \ {tm}, horizon))
Advance(step, horizon) ==
    /\ now < horizon
    /\ now < FirstDue(timers, horizon)
    /\ now < TimerDue(silenceTimerRef, horizon)
    /\ now' = Min(Min(now + step, horizon),
                  Min(FirstDue(timers, horizon),
                      TimerDue(silenceTimerRef, horizon)))
    /\ UNCHANGED << mounted, isRecording, isSpeechDetected, error, Settings, tracing, Service, Crypto, Page,
                    processingRef, inflight, awaiting, transcriptRef, lastSpeechTimeRef,
                    timers, timeout, engine, results, handlerIsRecording,
                    orphan, pending, analyserRef, loops, animationFrameRef,
                    silenceTimerRef, microphoneStreamRef, orphanStreams,
                    trackStops, dispatchRequested, stopHits, requests,
                    calls, sent, lastLoudAt, lastTick, lastPayload >>

\* No start request is under way and no sampling chain is left over.
Quiet == pending = <<>> /\ ActiveLoops(loops) = {}

\* ------------------------------------------- actions of the server module
CallIds == 1..MaxCalls

\* The module state as call c finds it.
CallState(c) ==
    [ providerStatus |-> providerStatus, currentProvider |-> currentProvider,
      requestTimestamps |-> requestTimestamps, call |-> serverCalls[c] ]

CommitCall(c, x) ==
    /\ providerStatus' = x.providerStatus
    /\ currentProvider' = x.currentProvider
    /\ requestTimestamps' = x.requestTimestamps
    /\ serverCalls' = [serverCalls EXCEPT ![c] = x.call]

\* The state in which a call of op begins in slot c.
Entered(c, op, arg) ==
    [CallState(c) EXCEPT !.call = [NoCall EXCEPT !.op = op, !.arg = arg]]

\* A client calls enhanceTranscriptWithAI.
CallEnhance(c) ==
    /\ serverCalls[c].pc = "idle"
    /\ CommitCall(c, EnhanceTranscriptWithAI(
                         Entered(c, "enhanceTranscriptWithAI", "none"), now))
    /\ UNCHANGED << now, Component >>

\* A client calls translateText.
CallTranslate(c) ==
    /\ serverCalls[c].pc = "idle"
    /\ CommitCall(c, TranslateText(Entered(c, "translateText", "none"), now))
    /\ UNCHANGED << now, Component >>

\* A client calls setAIProvider(provider).
CallSetAIProvider(c, provider) ==
    /\ serverCalls[c].pc = "idle"
    /\ CommitCall(c, SetAIProvider(Entered(c, "setAIProvider", provider), now))
    /\ UNCHANGED << now, Component >>

\* A client calls checkAPIStatus.
CallCheckAPIStatus(c) ==
    /\ serverCalls[c].pc = "idle"
    /\ CommitCall(c, CheckAPIStatus(Entered(c, "checkAPIStatus", "none"), now))
    /\ UNCHANGED << now, Component >>

\* The request of call c ends, with a text or with an error.
RequestEnds(c, outcome) ==
    /\ serverCalls[c].pc = "request"
    /\ CommitCall(c, RequestSettles(CallState(c), outcome, now))
    /\ UNCHANGED << now, Component >>

\* The sleep of call c is over.
SleepOver(c) ==
    /\ serverCalls[c].pc \in {"limited", "backoff"}
    /\ serverCalls[c].wake <= now
    /\ CommitCall(c, SleepEnds(CallState(c), now))
    /\ UNCHANGED << now, Component >>

\* The await of getCurrentProvider in checkAPIStatus is over.
ProviderInfoArrives(c) ==
    /\ serverCalls[c].pc = "getCurrentProvider"
    /\ CommitCall(c, CheckAPIStatusReturn(CallState(c)))
    /\ UNCHANGED << now, Component >>

\* The calls that sleep, and the earliest time at which one of them wakes.
Sleepers == {c \in CallIds : serverCalls[c].pc \in {"limited", "backoff"}}
RECURSIVE FirstWake(_)
FirstWake(cs) ==
    LET c == CHOOSE x \in cs : TRUE
    IN IF cs \ {c} = {} THEN serverCalls[c].wake
       ELSE Min(serverCalls[c].wake, FirstWake(cs \ {c}))

\* Time passes until the first sleeping call is due.
SleepAdvance ==
    /\ Sleepers # {}
    /\ now < FirstWake(Sleepers)
    /\ now' = FirstWake(Sleepers)
    /\ UNCHANGED << Component, Service >>

\* Time passes, by step, but not past a sleeping call that is due nor past
\* the horizon.
ClockTick(step, horizon) ==
    /\ now + step <= horizon
    /\ Sleepers # {} => now + step < FirstWake(Sleepers)
    /\ now' = now + step
    /\ UNCHANGED << Component, Service >>

\* ------------------------------------------ actions of the crypto service
CryptoCallIds == 1..MaxCryptoCalls

\* What a method of the CryptoService or a handler of the panel reads and
\* writes, for the call in slot c.
CryptoState(c) ==
    [ service |-> cryptoService, panel |-> panel, notified |-> notified,
      encryptionEnabled |-> encryptionEnabled, mounted |-> mounted,
      call |-> cryptoCalls[c] ]

CommitCrypto(c, y) ==
    /\ cryptoService' = y.service
    /\ encryptionKey' = IsInitialized(y.service)
    /\ panel' = y.panel
    /\ notified' = y.notified
    /\ encryptionEnabled' = y.encryptionEnabled
    /\ cryptoCalls' = [cryptoCalls EXCEPT ![c] = y.call]
    /\ UNCHANGED << now, Session, Page, audioThreshold, silenceThreshold,
                    Service >>

\* The keys and key ids that the service, the panel, its parent or a call
\* hold or refer to, and a key number none of them refers to.
ReferencedKeys ==
    {cryptoService.encryptionKey, cryptoService.keyId, panel.keyId,
     notified.keyId}
        \cup UNION {{cryptoCalls[c].key, cryptoCalls[c].payload.key,
                     cryptoCalls[c].payload.keyId, cryptoCalls[c].ret.key,
                     cryptoCalls[c].ret.keyId} : c \in CryptoCallIds}
FreshKeys == KeyNumbers \ ReferencedKeys
NewKey == CHOOSE k \in FreshKeys : \A j \in FreshKeys : k <= j

\* A client calls initialize.
CallInitialize(c) ==
    /\ cryptoCalls[c].pc = "idle"
    /\ CommitCrypto(c, Initialize([CryptoState(c) EXCEPT
                                      !.call.owner = "client"]))

\* No call of initialize has returned to an enableEncryption that has yet
\* to go on: a continuation runs before the next event is handled.
PanelSettled ==
    \A c \in CryptoCallIds :
        cryptoCalls[c].pc = "done"
            => cryptoCalls[c].owner \notin {"panel", "unmounted"}

\* generateKey resolves with a new key, or rejects.
GenerateKeyEnds(c, ok) ==
    /\ cryptoCalls[c].pc = "generateKey" /\ PanelSettled
    /\ ok => FreshKeys # {}
    /\ CommitCrypto(c, InitializeResumes(CryptoState(c), ok,
                                         IF ok THEN NewKey ELSE 0))

\* A client calls clearKeys.
CallClearKeys ==
    /\ \E c \in CryptoCallIds : CommitCrypto(c, ClearKeys(CryptoState(c)))

\* A client calls encryptText.
CallEncryptText(c, plaintext) ==
    /\ cryptoCalls[c].pc = "idle"
    /\ CommitCrypto(c, EncryptText([CryptoState(c) EXCEPT
                                       !.call.owner = "client"], plaintext))

\* crypto.subtle.encrypt resolves, or rejects.
EncryptEnds(c, ok) ==
    /\ cryptoCalls[c].pc = "encrypt"
    /\ CommitCrypto(c, EncryptTextResumes(CryptoState(c), ok))

\* A client calls decryptText with what the call in slot d of encryptText
\* returned.
CallDecryptText(c, d) ==
    /\ cryptoCalls[c].pc = "idle"
    /\ cryptoCalls[d].op = "encryptText" /\ cryptoCalls[d].pc = "done"
    /\ cryptoCalls[d].err = "none"
    /\ CommitCrypto(c, DecryptText([CryptoState(c) EXCEPT
                                       !.call.owner = "client"],
                                   cryptoCalls[d].ret))

\* crypto.subtle.decrypt resolves, or rejects.
DecryptEnds(c) ==
    /\ cryptoCalls[c].pc = "decrypt"
    /\ CommitCrypto(c, DecryptTextResumes(CryptoState(c)))

\* The client drops what a call returned; its slot is free again.
ForgetCrypto(c) ==
    /\ cryptoCalls[c].pc = "done" /\ cryptoCalls[c].owner = "client"
    /\ CommitCrypto(c, [CryptoState(c) EXCEPT !.call = NoCryptoCall])

\* A click on "Enable Encryption", which is shown while the panel is not
\* enabled and is disabled while it initializes or has no Web Crypto API.
EnableEncryption ==
    /\ PanelMounted /\ PanelSettled
    /\ ~panel.isEnabled /\ panel.isSupported /\ ~panel.isInitializing
    /\ \E c \in CryptoCallIds :
          /\ cryptoCalls[c].pc = "idle"
          /\ \A d \in 1..(c - 1) : cryptoCalls[d].pc # "idle"
          /\ CommitCrypto(c, PanelEnableEncryption(CryptoState(c)))

\* initialize has returned or thrown to enableEncryption, which goes on.
EnableEncryptionResumes(c) ==
    /\ cryptoCalls[c].pc = "done"
    /\ cryptoCalls[c].owner \in {"panel", "unmounted"}
    /\ CommitCrypto(c, PanelEnableEncryptionResumes(CryptoState(c)))

\* A click on "Disable Encryption", which is shown while the panel is
\* enabled.
DisableEncryption ==
    /\ PanelMounted /\ PanelSettled /\ panel.isEnabled
    /\ \E c \in CryptoCallIds :
          CommitCrypto(c, PanelDisableEncryption(CryptoState(c)))

\* ------------------------------------------------ actions of the page
\* checkAPIStatus() or getCurrentProvider() answers a run of checkApi or of
\* handleProviderChange, or rejects.  status is what checkAPIStatus()
\* answers: it is stored in apiStatus and the run awaits
\* getCurrentProvider().  After that, or after a rejection, the finally
\* clears isCheckingApi and the page is rendered, its sheet closed; the
\* catch of checkApi stores the demo status before, the catch of
\* handleProviderChange stores nothing.
ApiCheckResumes(ok, status) ==
    /\ \E i \in 1..Len(apiChecks) :
          IF ok /\ apiChecks[i].at = "checkAPIStatus"
          THEN /\ apiChecks' = [apiChecks EXCEPT ![i].at = "getCurrentProvider"]
               /\ apiStatus' = IF mounted THEN status ELSE apiStatus
               /\ UNCHANGED isCheckingApi
          ELSE /\ apiChecks' = Without(apiChecks, i)
               /\ apiStatus' = IF ~ok /\ apiChecks[i].run = "checkApi" /\ mounted
                               THEN DemoStatus ELSE apiStatus
               /\ isCheckingApi' = IF mounted THEN FALSE ELSE isCheckingApi
    /\ UNCHANGED << now, mounted, sheetOpen, showAdvancedSettings, changing,
                    selected, Session, Settings, Service, Crypto >>

\* A click on "Settings": the sheet opens, ProviderSelector and
\* EncryptionStatus are mounted, the one with the current provider of
\* apiStatus selected, and the panel's mount effect runs.
OpenSheet ==
    /\ PageShown /\ ~sheetOpen /\ PanelSettled
    /\ sheetOpen' = TRUE
    /\ panel' = IF apiStatus # NoStatus THEN EncryptionStatus(cryptoService)
                ELSE NoPanel
    /\ selected' = IF apiStatus # NoStatus THEN apiStatus.currentProvider
                   ELSE "none"
    /\ UNCHANGED << now, mounted, isCheckingApi, showAdvancedSettings,
                    apiStatus, apiChecks, changing, Session, Settings,
                    Service, cryptoService, cryptoCalls, notified >>

\* The sheet is closed: its content is unmounted.
CloseSheet ==
    /\ PanelMounted /\ PanelSettled
    /\ PageUnmounts
    /\ UNCHANGED << now, mounted, isCheckingApi, showAdvancedSettings,
                    apiStatus, apiChecks, Session, Settings, Service,
                    cryptoService, notified >>

\* A click on "Show" or "Hide" of the voice detection settings.
ToggleAdvancedSettings ==
    /\ PanelMounted
    /\ showAdvancedSettings' = ~showAdvancedSettings
    /\ UNCHANGED << now, mounted, isCheckingApi, sheetOpen, apiStatus,
                    apiChecks, changing, selected, Session, Settings,
                    Service, Crypto >>

\* A click on the radio button of provider: it is disabled while
\* isChanging, and for openai and groq where apiStatus has them
\* unavailable.
SelectProvider(provider) ==
    /\ PanelMounted /\ ~IsChanging
    /\ provider = "fallback" \/ apiStatus.providers[provider]
    /\ provider # selected
    /\ selected' = provider
    /\ UNCHANGED << now, mounted, isCheckingApi, sheetOpen,
                    showAdvancedSettings, apiStatus, apiChecks, changing,
                    Session, Settings, Service, Crypto >>

\* A click on "Change Provider": the button is disabled while the provider
\* selected is the current one of apiStatus and while isChanging;
\* handleChange awaits setAIProvider.
ChangeProvider ==
    /\ PanelMounted /\ ~IsChanging
    /\ selected # apiStatus.currentProvider
    /\ Len(changing) + Len(apiChecks) < MaxProviderChanges
    /\ changing' = Append(changing, "mounted")
    /\ UNCHANGED << now, mounted, isCheckingApi, sheetOpen,
                    showAdvancedSettings, apiStatus, apiChecks, selected,
                    Session, Settings, Service, Crypto >>

\* setAIProvider answers a handleChange.  On true it calls onProviderChange,
\* which is handleProviderChange up to its await of checkAPIStatus():
\* setIsCheckingApi(true) has the spinner rendered for the page.  On false,
\* or when the call throws, only isChanging is cleared.
SetAIProviderReturns(success) ==
    /\ PanelSettled
    /\ \E i \in 1..Len(changing) :
          IF success
          THEN /\ apiChecks' =
                     Append(apiChecks, [run |-> "handleProviderChange",
                                        at |-> "checkAPIStatus"])
               /\ IF mounted
                  THEN /\ isCheckingApi' = TRUE
                       /\ sheetOpen' = FALSE
                       /\ panel' = NoPanel
                       /\ selected' = "none"
                       /\ cryptoCalls' =
                             [c \in 1..MaxCryptoCalls |->
                                 IF cryptoCalls[c].owner = "panel"
                                 THEN [cryptoCalls[c] EXCEPT
                                          !.owner = "unmounted"]
                                 ELSE cryptoCalls[c]]
                       /\ changing' = [k \in 1..(Len(changing) - 1) |->
                                          "unmounted"]
                  ELSE /\ changing' = Without(changing, i)
                       /\ UNCHANGED << isCheckingApi, sheetOpen, panel,
                                       selected, cryptoCalls >>
          ELSE /\ changing' = Without(changing, i)
               /\ UNCHANGED << isCheckingApi, sheetOpen, panel, selected,
                               cryptoCalls, apiChecks >>
    /\ UNCHANGED << now, mounted, showAdvancedSettings, apiStatus, Session,
                    Settings, Service, cryptoService, notified >>

\* ------------------------------------------------------- specifications
\* Spec: sessions started one at a time, with the engine's results, the
\* debounced dispatch, the silence timeout slider and the clock; the
\* sessions are started with the sheet open and its sliders shown.  The
\* start-up check finds no provider available, or fails.
Next ==
    \/ \E ok \in BOOLEAN : ApiCheckResumes(ok, DemoStatus)
    \/ OpenSheet
    \/ ~showAdvancedSettings /\ ToggleAdvancedSettings
    \/ Quiet /\ SlidersShown /\ ToggleStart
    \/ \E lvl \in Levels : AcquireOk(1, lvl)
    \/ AcquireFail(1)
    \/ ToggleStop
    \/ \E id \in LoopIds, lvl \in Levels : SampleTick(id, lvl)
    \/ \E w \in Words, f \in BOOLEAN : EngineResult(w, f, MaxResults)
    \/ EngineError
    \/ EngineEnd
    \/ DebounceFire
    \/ \E ok \in BOOLEAN : DispatchDone(ok)
    \/ \E ok \in BOOLEAN : CatchResumes(ok, DemoStatus)
    \/ Advance(StepMs, MaxTime)
    \/ engine = "idle" /\ ChangeLanguage
    \/ \E v \in SilenceThresholds : SetSilenceThreshold(v)

Spec == Init /\ [][Next]_vars

\* SpecLifecycle: every way a session is started and stopped, overlapping
\* start requests, language changes and the unmount included; the engine
\* delivers no results.
NextLifecycle ==
    \/ \E ok \in BOOLEAN, status \in Statuses : ApiCheckResumes(ok, status)
    \/ ToggleStart
    \/ \E i \in 1..MaxStarts, lvl \in Levels : AcquireOk(i, lvl)
    \/ \E i \in 1..MaxStarts : AcquireFail(i)
    \/ ToggleStop
    \/ \E id \in LoopIds, lvl \in Levels : SampleTick(id, lvl)
    \/ EngineError
    \/ EngineEnd
    \/ OrphanError
    \/ OrphanEnd
    \/ ChangeLanguage
    \/ Unmount

SpecLifecycle == Init /\ [][NextLifecycle]_vars

\* SpecDebounce: one session in which the engine delivers final results on
\* a grid of DebounceStepMs; the calls of debouncedTranslate and the runs of
\* the debounced function are recorded.
NextDebounce ==
    \/ \E ok \in BOOLEAN : ApiCheckResumes(ok, DemoStatus)
    \/ Quiet /\ ~isRecording /\ engine = "idle" /\ results = <<>> /\ ToggleStart
    \/ \E lvl \in Levels : AcquireOk(1, lvl)
    \/ EngineResult(<<"a">>, TRUE, MaxFinals)
    \/ DebounceFire
    \/ \E ok \in BOOLEAN : DispatchDone(ok)
    \/ \E ok \in BOOLEAN : CatchResumes(ok, DemoStatus)
    \/ Advance(DebounceStepMs, MaxDebounceTime)

InitDebounce == InitComponent /\ tracing = TRUE

SpecDebounce == InitDebounce /\ [][NextDebounce]_vars

\* SpecVad: sessions with their sampling ticks on a grid of VadStepMs, the
\* audio threshold slider, overlapping start requests, interim results and
\* the engine's end.
NextVad ==
    \/ \E ok \in BOOLEAN : ApiCheckResumes(ok, DemoStatus)
    \/ OpenSheet
    \/ ~showAdvancedSettings /\ ToggleAdvancedSettings
    \/ SlidersShown /\ ToggleStart
    \/ \E i \in 1..MaxStarts, lvl \in Levels : AcquireOk(i, lvl)
    \/ ToggleStop
    \/ \E id \in LoopIds, lvl \in Levels : SampleTick(id, lvl)
    \/ \E v \in AudioThresholds : SetAudioThreshold(v)
    \/ EngineResult(<<"a">>, FALSE, 1)
    \/ EngineEnd
    \/ Advance(VadStepMs, MaxVadTime)

SpecVad == Init /\ [][NextVad]_vars

\* SpecDispatch: SpecDebounce with the sample button; the texts handed to
\* the pipeline are recorded.
NextDispatch ==
    \/ NextDebounce
    \/ \E sampleText \in SampleTexts : Len(sent) < MaxSent /\ AddSample(sampleText)

SpecDispatch == InitDebounce /\ [][NextDispatch]_vars

\* SpecEncryption: a session as in SpecDebounce with the encryption switched
\* on and off, the settings sheet opened and closed and the provider
\* changed; what each dispatch hands to the pipeline is recorded.
NextEncryption ==
    \/ Quiet /\ ~isRecording /\ engine = "idle" /\ results = <<>> /\ ToggleStart
    \/ \E lvl \in Levels : AcquireOk(1, lvl)
    \/ EngineResult(<<"a">>, TRUE, MaxEncryptionFinals)
    \/ DebounceFire
    \/ \E ok \in BOOLEAN : DispatchDone(ok)
    \/ \E ok \in BOOLEAN, status \in Statuses : CatchResumes(ok, status)
    \/ Advance(DebounceStepMs, MaxEncryptionTime)
    \/ EnableEncryption
    \/ \E c \in CryptoCallIds, ok \in BOOLEAN : GenerateKeyEnds(c, ok)
    \/ \E c \in CryptoCallIds : EnableEncryptionResumes(c)
    \/ DisableEncryption
    \/ \E ok \in BOOLEAN, status \in Statuses : ApiCheckResumes(ok, status)
    \/ OpenSheet
    \/ CloseSheet
    \/ \E provider \in ProviderNames : SelectProvider(provider)
    \/ ChangeProvider
    \/ \E success \in BOOLEAN : SetAIProviderReturns(success)

SpecEncryption == InitDebounce /\ [][NextEncryption]_vars

\* switchToNextProvider is called; slot c keeps what it returned.
CallSwitchToNextProvider(c) ==
    /\ serverCalls[c].pc = "idle"
    /\ LET x == Entered(c, "switchToNextProvider", "none")
           next == SwitchToNextProvider(x.providerStatus, x.currentProvider)
       IN CommitCall(c, Return([x EXCEPT !.currentProvider = next], next))
    /\ UNCHANGED << now, Component >>

\* SpecCrypto: up to MaxCryptoCalls calls of the methods of the
\* CryptoService under way, in every order, each async one resolving or
\* rejecting; decryptText is given what an earlier encryptText returned.
NextCrypto ==
    \/ \E c \in CryptoCallIds : CallInitialize(c)
    \/ \E c \in CryptoCallIds, ok \in BOOLEAN : GenerateKeyEnds(c, ok)
    \/ CallClearKeys
    \/ \E c \in CryptoCallIds, plaintext \in Texts :
          CallEncryptText(c, plaintext)
    \/ \E c \in CryptoCallIds, ok \in BOOLEAN : EncryptEnds(c, ok)
    \/ \E c, d \in CryptoCallIds : CallDecryptText(c, d)
    \/ \E c \in CryptoCallIds : DecryptEnds(c)
    \/ \E c \in CryptoCallIds : ForgetCrypto(c)
SpecCrypto == Init /\ [][NextCrypto]_vars

\* SpecSwitch: switchToNextProvider applied, up to MaxCalls times in a row,
\* to every marking of the providers and every current provider.
InitSwitch ==
    /\ \E status \in [ProviderNames -> BOOLEAN], current \in ProviderNames :
          providerStatus = status /\ currentProvider = current
    /\ InitLimiter
    /\ InitClient
    /\ tracing = FALSE
NextSwitch == \E c \in CallIds : CallSwitchToNextProvider(c)
SpecSwitch == InitSwitch /\ [][NextSwitch]_vars

\* SpecService: up to MaxCalls calls of the server module, each slot used
\* once, running concurrently; their requests end with a text or with an
\* error that is not a rate limit error, so no call sleeps.
NextService ==
    \/ \E c \in CallIds : CallEnhance(c)
    \/ \E c \in CallIds : CallTranslate(c)
    \/ \E c \in CallIds, provider \in ProviderNames : CallSetAIProvider(c, provider)
    \/ \E c \in CallIds : CallCheckAPIStatus(c)
    \/ \E c \in CallIds, outcome \in Outcomes \ RateLimitErrors :
          RequestEnds(c, outcome)
    \/ \E c \in CallIds : ProviderInfoArrives(c)

SpecService == Init /\ [][NextService]_vars

\* SpecRetry: up to MaxRetryCalls calls, each slot used once, with every
\* outcome of their requests, the rate limit errors and the backoff sleeps
\* included.
RetryCallIds == 1..MaxRetryCalls
NextRetry ==
    \/ \E c \in RetryCallIds : CallEnhance(c)
    \/ \E c \in RetryCallIds : CallTranslate(c)
    \/ \E c \in RetryCallIds, provider \in ProviderNames :
          CallSetAIProvider(c, provider)
    \/ \E c \in RetryCallIds : CallCheckAPIStatus(c)
    \/ \E c \in RetryCallIds, outcome \in Outcomes : RequestEnds(c, outcome)
    \/ \E c \in RetryCallIds : SleepOver(c)
    \/ \E c \in RetryCallIds : ProviderInfoArrives(c)
    \/ SleepAdvance

SpecRetry == Init /\ [][NextRetry]_vars

\* SpecRetryLive: SpecRetry where every request ends, every sleep is over
\* in time and every await of a settled promise resumes.
SpecRetryLive ==
    /\ SpecRetry
    /\ \A c \in RetryCallIds :
          /\ WF_vars(\E outcome \in Outcomes : RequestEnds(c, outcome))
          /\ WF_vars(SleepOver(c))
          /\ WF_vars(ProviderInfoArrives(c))
    /\ WF_vars(SleepAdvance)

\* SpecRateLimit: up to MaxLimiterCalls calls, each slot used once, with
\* every outcome of their requests, the rate limit errors and the backoff
\* sleeps included; the clock runs to the next call that wakes, and in
\* steps of LimiterStepMs.
\* The module has served none of the minute's requests of groq, or all of
\* them but LimiterMargin at most, when the calls are made.
Histories ==
    {0} \cup ((GroqMaxRequestsPerMinute - LimiterMargin)
                 ..GroqMaxRequestsPerMinute)
InitRateLimit ==
    /\ InitClient
    /\ tracing = FALSE
    /\ providerStatus = [p \in ProviderNames |-> p # "openai"]
    /\ currentProvider = "groq"
    /\ serverCalls = [c \in 1..MaxCalls |-> NoCall]
    /\ \E n \in Histories :
          requestTimestamps =
              [p \in RateLimited |->
                  IF p = "groq" THEN [i \in 1..n |-> 0] ELSE <<>>]

LimiterCallIds == 1..MaxLimiterCalls
NextRateLimit ==
    \/ \E c \in LimiterCallIds : CallEnhance(c)
    \/ \E c \in LimiterCallIds : CallTranslate(c)
    \/ \E c \in LimiterCallIds, provider \in ProviderNames :
          CallSetAIProvider(c, provider)
    \/ \E c \in LimiterCallIds : CallCheckAPIStatus(c)
    \/ \E c \in LimiterCallIds, outcome \in Outcomes : RequestEnds(c, outcome)
    \/ \E c \in LimiterCallIds : SleepOver(c)
    \/ \E c \in LimiterCallIds : ProviderInfoArrives(c)
    \/ SleepAdvance
    \/ ClockTick(LimiterStepMs, MaxServiceTime)

SpecRateLimit == InitRateLimit /\ [][NextRateLimit]_vars

\* ------------------------------------------------------------- properties
LiveStreams == (IF microphoneStreamRef = "live" THEN 1 ELSE 0) + orphanStreams

\* A session of the controller is under way: a start request is acquiring
\* the device, or the component shows a recording.
SessionActive == mounted /\ (isRecording \/ pending # <<>>)

\* C1: when getUserMedia rejects for a start request, the rest of that
\* request leaves the controller Idle: isRecording is false, the engine has
\* not been started and an error is shown.
C1_MicFailureEndsIdle ==
    [][ (\E i \in 1..MaxStarts : AcquireFail(i))
            => /\ ~isRecording'
               /\ engine' = engine
               /\ error' # Null ]_vars

\* C2: in a session started by a start request, once the transcript is not
\* empty the watchdog stops the recording at the first poll after the
\* silence exceeds silenceThreshold: a recording with a transcript is never
\* found more than one poll period beyond the timeout.
C2_WatchdogStopsAfterSilence ==
    (isRecording /\ microphoneStreamRef = "live" /\ Trim(transcriptRef) # <<>>)
        => now - lastSpeechTimeRef <= silenceThreshold + SilencePollMs

\* C3: while the session's transcript is empty or blank the watchdog does
\* not stop the session and keeps polling: a poll is scheduled.
C3_WatchdogKeepsPollingWhileEmpty ==
    (isRecording /\ microphoneStreamRef = "live" /\ Trim(transcriptRef) = <<>>)
        => silenceTimerRef # NoPoll

\* C5: at most one session at a time: never two start requests acquiring
\* the device, never two capture streams, never two sampling chains.
C5_OneSessionAtATime ==
    /\ Len(pending) <= 1
    /\ LiveStreams <= 1
    /\ Cardinality(ActiveLoops(loops)) <= 1

\* C6: whenever no session is active, no sampling tick and no watchdog poll
\* is scheduled and no capture track is live.
C6_NothingLeftWithoutSession ==
    ~SessionActive
        => /\ ActiveLoops(loops) = {}
           /\ silenceTimerRef = NoPoll
           /\ LiveStreams = 0

\* A handler that stops the session runs: the user's stop, the engine's
\* error, the engine's end where its handler acts, the unmount.
StopTrigger ==
    \/ ToggleStop
    \/ EngineError
    \/ OrphanError
    \/ EngineEnd /\ handlerIsRecording
    \/ OrphanEnd /\ orphan.isRecording
    \/ Unmount

\* C7: stop is idempotent.  Every stop trigger leaves the sampling tick
\* cancelled, the poll cleared, the stream released and the controller Idle;
\* it stops the tracks of the stream the controller holds exactly when they
\* are still live, so no stream has its tracks stopped twice, whatever the
\* order in which the triggers hit a session.
C7_StopIdempotent ==
    [][ /\ trackStops' <= 1
        /\ StopTrigger
             => /\ animationFrameRef' = 0
                /\ animationFrameRef # 0 => ~loops'[animationFrameRef].on
                /\ silenceTimerRef' = NoPoll
                /\ microphoneStreamRef' = Null
                /\ mounted' => ~isRecording'
                /\ trackStops' = IF microphoneStreamRef = "live"
                                 THEN 1 ELSE trackStops
                /\ orphanStreams' = orphanStreams ]_vars

\* C7 witness: the user's stop and the engine's error have both hit one
\* session, and its tracks were stopped once.
C7_Witness ==
    /\ mounted /\ ~isRecording /\ pending = <<>>
    /\ stopHits = 2 /\ engine = "ending" /\ error = "speech"
    /\ trackStops = 1 /\ microphoneStreamRef = Null /\ LiveStreams = 0
    /\ ActiveLoops(loops) = {}

\* C8: the engine's end event, delivered while a session is Listening, ends
\* the session as a user stop does: isRecording false, sampling halted, the
\* capture device released.
C8_EngineEndStopsSession ==
    [][ (EngineEnd /\ isRecording /\ engine = "running")
            => /\ ~isRecording'
               /\ animationFrameRef' = 0
               /\ microphoneStreamRef' = Null ]_vars

\* C9: once a session has ended without an engine error and the engine has
\* delivered its end event, a transcript that is not empty has been
\* dispatched: debouncedTranslate was called for it.
C9_StopDispatchesTranscript ==
    (~isRecording /\ pending = <<>> /\ engine = "idle" /\ error # "speech"
        /\ Trim(transcriptRef) # <<>>)
        => dispatchRequested

\* The request that set off a run of the debounced function: same text, and
\* the run comes DebounceWaitMs after it, with no later request before it.
Origin(call, j) ==
    /\ requests[j].text = call.text
    /\ requests[j].at + DebounceWaitMs = call.at
    /\ \A k \in (j + 1)..Len(requests) : requests[k].at >= call.at

\* The scenario of three final transcripts at 0, 200 and 2000 ms.
Burst ==
    << [text |-> <<"a", " ">>, at |-> 0],
       [text |-> <<"a", " ", "a", " ">>, at |-> 200],
       [text |-> <<"a", " ", "a", " ", "a", " ">>, at |-> 2000] >>

\* C10: trailing-edge debounce of 1000 ms.  At most one call is pending, it
\* is the latest request's, with its text, due 1000 ms after its arrival;
\* every run of the debounced function is that of a request which nothing
\* superseded before the run; a request which nothing superseded within
\* 1000 ms is run; and the finals at 0, 200 and 2000 ms give exactly two
\* runs, the second text at 1200 ms and the third at 3000 ms.
C10_TrailingEdgeDebounce ==
    /\ Cardinality(timers) <= 1
    /\ timers # {}
         => timers = {[due |-> requests[Len(requests)].at + DebounceWaitMs,
                       text |-> requests[Len(requests)].text]}
    /\ \A i \in 1..Len(calls) : \E j \in 1..Len(requests) : Origin(calls[i], j)
    /\ \A j \in 1..Len(requests) :
         (/\ requests[j].at + DebounceWaitMs < now
          /\ \A k \in (j + 1)..Len(requests) :
                requests[k].at > requests[j].at + DebounceWaitMs)
            => \E i \in 1..Len(calls) : Origin(calls[i], j)
    /\ (requests = Burst /\ now >= 3000 /\ timers = {})
         => calls = << [text |-> Burst[2].text, at |-> 1200],
                       [text |-> Burst[3].text, at |-> 3000] >>

\* C10 witness: the scenario has run to its end, the pipeline having answered
\* the first dispatch before the second.
C10_Witness ==
    /\ requests = Burst
    /\ calls = << [text |-> Burst[2].text, at |-> 1200],
                  [text |-> Burst[3].text, at |-> 3000] >>
    /\ timers = {}
    /\ inflight = << Burst[3].text >>

\* C11: at most one dispatch to the pipeline is in flight at any time,
\* whether it comes from the debounced function or from the sample button,
\* and processingRef is set while it is.
C11_OneDispatchInFlight ==
    /\ Len(inflight) <= 1
    /\ inflight # <<>> => processingRef

\* C11 witness: the debounce timer has expired while the sample text was in
\* flight, and the sample text is still the only dispatch made.
C11_Witness ==
    /\ inflight = << <<"s">> >>
    /\ sent = << <<"s">> >>
    /\ calls # <<>>

\* C12: a final transcript that nothing supersedes is dispatched once its
\* quiet period has expired, even if an earlier dispatch is then still in
\* flight: when no debounce timer is pending, the text of the latest request
\* has been handed to the pipeline.
C12_LatestFinalIsDispatched ==
    (requests # <<>> /\ timers = {})
        => \E k \in 1..Len(sent) : sent[k] = requests[Len(requests)].text

\* C13: a transcript event requests a dispatch only if it is final and its
\* text is not empty; an interim event never sets the debounce timer, also
\* when a final result came earlier in the session.
C13_OnlyFinalEventsDispatch ==
    [][ \A w \in Words, f \in BOOLEAN :
          (EngineResult(w, f, MaxResults) /\ timeout' # timeout)
              => (f /\ Trim(transcriptRef') # <<>>) ]_vars

\* C14: on every tick the frame is loud exactly when its average exceeds
\* audioThreshold or its peak exceeds twice audioThreshold; a loud tick in
\* the Silent state gives Speaking on that tick and sets lastSpeechTimeRef
\* to the tick's time, and a tick that is not loud leaves Silent as it is.
C14_LoudRule ==
    [][ \A id \in LoopIds, lvl \in Levels :
          (SampleTick(id, lvl) /\ ~isSpeechDetected)
              => IF IsSpeaking(lvl, audioThreshold)
                 THEN isSpeechDetected' /\ lastSpeechTimeRef' = now
                 ELSE ~isSpeechDetected' ]_vars

\* C15: the classifier does not report Speaking after a tick whose frame is
\* not loud; read together with the hold of C16: after a tick that is not
\* loud and comes more than 300 ms after the last loud tick.
C15_NoSpeakingOnQuietTick ==
    [][ \A id \in LoopIds, lvl \in Levels :
          (/\ SampleTick(id, lvl)
           /\ ~IsSpeaking(lvl, audioThreshold)
           /\ lastLoudAt < 0 \/ now - lastLoudAt > SpeechHoldMs)
              => ~isSpeechDetected' ]_vars

\* C16: debounce law.  A tick that finds the state Speaking and comes within
\* 300 ms, inclusive, of the last tick classified loud leaves it Speaking,
\* whatever its own frame.
C16_SpeakingHeldFor300ms ==
    [][ \A id \in LoopIds, lvl \in Levels :
          (/\ SampleTick(id, lvl)
           /\ isSpeechDetected
           /\ lastLoudAt >= 0 /\ now - lastLoudAt <= SpeechHoldMs)
              => isSpeechDetected' ]_vars

\* C16 witness: a quiet tick came exactly 300 ms after the last loud tick,
\* found the state Speaking and left it Speaking.
C16_Witness ==
    /\ isRecording /\ isSpeechDetected
    /\ lastTick.was /\ ~lastTick.loud
    /\ lastLoudAt >= 0 /\ lastTick.at - lastLoudAt = SpeechHoldMs

\* C17: a quiet tick that finds the state Speaking more than 300 ms after
\* lastSpeechTimeRef makes it Silent on that tick (for threshold 12 and the
\* levels 5, 5, 20, 5, 5, 5, 5 at 0, 50, 100, 150, 400, 450, 500 ms: Silent
\* from the tick at 450 ms on).
C17_SilentAfterHold ==
    [][ \A id \in LoopIds, lvl \in Levels :
          (/\ SampleTick(id, lvl)
           /\ isSpeechDetected
           /\ ~IsSpeaking(lvl, audioThreshold)
           /\ now - lastSpeechTimeRef > SpeechHoldMs)
              => ~isSpeechDetected' ]_vars

\* C18: every tick that classifies its frame loud sets lastSpeechTimeRef to
\* the tick's time, whether or not the speech flag changes, and no tick
\* decreases lastSpeechTimeRef; a tick that is not loud leaves it alone.
C18_LoudTickRefreshesLastSpeech ==
    [][ \A id \in LoopIds, lvl \in Levels :
          SampleTick(id, lvl)
              => /\ lastSpeechTimeRef' >= lastSpeechTimeRef
                 /\ lastSpeechTimeRef' =
                        IF IsSpeaking(lvl, loops[id].audioThreshold)
                        THEN now ELSE lastSpeechTimeRef ]_vars

\* C18 witness: after time 0 a loud tick found the state Speaking already
\* and left lastSpeechTimeRef at its own time.
C18_Witness ==
    /\ isRecording /\ isSpeechDetected
    /\ lastTick.was /\ lastTick.loud
    /\ lastTick.at > 0 /\ lastSpeechTimeRef = lastTick.at

\* C19: lastSpeechTimeRef is written only by the classifier on loud ticks
\* and by the start of a session: a transcript event, interim or final,
\* leaves it unchanged.
C19_TranscriptLeavesLastSpeech ==
    [][ (\E w \in Words, f \in BOOLEAN : EngineResult(w, f, MaxResults))
            => lastSpeechTimeRef' = lastSpeechTimeRef ]_vars

\* C20: a slider change during a session is used by the session's next
\* tick and does not touch lastSpeechTimeRef: moving a slider leaves
\* lastSpeechTimeRef unchanged, and every tick classifies its frame with the
\* audioThreshold set at the time of the tick.
C20_SliderAppliesToNextTick ==
    [][ /\ (\E v \in AudioThresholds : SetAudioThreshold(v))
            => lastSpeechTimeRef' = lastSpeechTimeRef
        /\ (\E v \in SilenceThresholds : SetSilenceThreshold(v))
            => lastSpeechTimeRef' = lastSpeechTimeRef
        /\ \A id \in LoopIds, lvl \in Levels :
              SampleTick(id, lvl)
                  => lastTick'.loud = IsSpeaking(lvl, audioThreshold) ]_vars

\* C21: an engine error during a session aborts it to Idle (isRecording
\* false, sampling tick cancelled, poll cleared, capture stream released) and
\* discards the session's transcript: as long as the error of that session
\* stands and no new session was started, no dispatch to the pipeline begins,
\* also when a debounced call was pending at the time of the error.
C21_EngineErrorDiscardsTranscript ==
    [][ /\ (EngineError /\ isRecording)
            => /\ ~isRecording'
               /\ animationFrameRef' = 0
               /\ silenceTimerRef' = NoPoll
               /\ microphoneStreamRef' = Null
        /\ (error = "speech" /\ ~isRecording /\ pending = <<>>)
            => Len(inflight') <= Len(inflight) ]_vars

\* C22: a failed dispatch leaves isRecording, isSpeechDetected and
\* lastSpeechTimeRef as they are and shows the processing error; when its
\* handler ends, after the two calls its catch awaits, these are still as
\* they were and the in-flight marker is cleared; the marker is never left
\* set without a dispatch whose handler has yet to end, so a later dispatch
\* or a new session is not blocked.
C22_FailedDispatchClearsMarker ==
    [][ /\ DispatchDone(FALSE)
            => /\ isRecording' = isRecording
               /\ isSpeechDetected' = isSpeechDetected
               /\ lastSpeechTimeRef' = lastSpeechTimeRef
               /\ error' = "processing"
        /\ (\E ok \in BOOLEAN, status \in Statuses : CatchResumes(ok, status))
            => /\ isRecording' = isRecording
               /\ isSpeechDetected' = isSpeechDetected
               /\ lastSpeechTimeRef' = lastSpeechTimeRef
        /\ Len(inflight') < Len(inflight) => ~processingRef'
        /\ processingRef' => inflight' # <<>> ]_vars

\* C22 witness: a dispatch has failed during a recording, its handler has
\* ended, and a later dispatch of the same recording is in flight.
C22_Witness ==
    /\ isRecording /\ error = "processing"
    /\ Len(sent) = 2 /\ inflight = << sent[2] >>
    /\ awaiting = << "pipeline" >>
    /\ sent[1] # <<"s">> /\ sent[2] # <<"s">>

\* C23: whenever the debounced function starts a dispatch while encryption
\* is enabled and the CryptoService is initialized, what it hands to
\* enhanceTranscriptWithAI is the encrypted payload, or the text where
\* encryptText failed.
C23_EnabledEncryptionEncrypts ==
    [][ (/\ DebounceFire
         /\ Len(inflight') > Len(inflight)
         /\ encryptionEnabled /\ encryptionKey)
            => lastPayload' \in {"encrypted", "fallback"} ]_vars

\* C24: once a session has returned to Idle, by whatever stop, its record is
\* cleared: while the controller is Idle the accumulated transcript is
\* empty, also after a transcript event that the engine delivers after the
\* stop.
C24_IdleHasNoTranscript ==
    (mounted /\ ~isRecording /\ pending = <<>>) => transcriptRef = <<>>

\* A step in which call c returns.
Returns(c) == serverCalls[c].pc # "done" /\ serverCalls'[c].pc = "done"

\* C25: every call of enhanceTranscriptWithAI and of translateText returns,
\* with a text: the provider's, or the simulated one after its request
\* failed, the rate limit retries exhausted included; it never throws.
C25_CallsReturnText ==
    \A c \in RetryCallIds :
        (serverCalls[c].op \in {"enhanceTranscriptWithAI", "translateText"})
            ~> (/\ serverCalls[c].pc = "done"
                /\ serverCalls[c].ret \in {"text", "simulated"})

\* C25 witness: a call of enhanceTranscriptWithAI has returned the simulated
\* text after its request met a rate limit error at each of its four
\* attempts.
C25_Witness ==
    \E c \in RetryCallIds :
        /\ serverCalls[c].op = "enhanceTranscriptWithAI"
        /\ serverCalls[c].pc = "done" /\ serverCalls[c].ret = "simulated"
        /\ serverCalls[c].attempts = MaxRetries + 1
        /\ currentProvider = "fallback"

\* C26: the fallback provider is always marked available.
C26_FallbackAlwaysAvailable == providerStatus["fallback"]

\* The recorded requests of provider p that are less than a minute old.
RecentRequests(p) ==
    SelectSeq(requestTimestamps[p], LAMBDA x : now - x < RateWindowMs)

\* A request of call c is sent in this step.
Sends(c) ==
    /\ serverCalls'[c].pc = "request"
    /\ \/ serverCalls[c].pc # "request"
       \/ \E outcome \in Outcomes : RequestEnds(c, outcome)

\* C27: for each rate-limited provider, the requests of the last minute are
\* all on record (a record is dropped only when it is a minute old, records
\* are added only with the time of the step, and every request that is
\* sent, first attempts, retries and probes alike, is recorded at the time
\* it is sent) and the record never holds more than maxRequestsPerMinute,
\* so that no more are sent in any window of a minute; a request over the
\* limit is not sent: its call waits, and when it wakes it is checked
\* again, and then waits again or is recorded.
C27_RateLimitHolds ==
    [][ /\ \A p \in RateLimited :
             /\ \E kept \in {requestTimestamps[p], RecentRequests(p)},
                   k \in 0..2 :
                   requestTimestamps'[p] = kept \o [i \in 1..k |-> now]
             /\ Len(requestTimestamps'[p]) <= MaxRequestsPerMinute(p)
        /\ \A c \in CallIds :
             LET p == serverCalls'[c].provider
                 q == serverCalls[c].provider
             IN /\ Sends(c)
                     => /\ p \in RateLimited
                        /\ Len(RecentRequests(p)) < MaxRequestsPerMinute(p)
                        /\ requestTimestamps'[p] # <<>>
                        /\ requestTimestamps'[p][Len(requestTimestamps'[p])]
                               = now
                /\ (serverCalls'[c].pc = "limited"
                        /\ serverCalls'[c] # serverCalls[c])
                     => /\ Len(requestTimestamps'[p]) = MaxRequestsPerMinute(p)
                        /\ \A i \in 1..Len(requestTimestamps'[p]) :
                              now - requestTimestamps'[p][i] < RateWindowMs
                        /\ serverCalls'[c].wake > now
                /\ (SleepOver(c) /\ serverCalls[c].pc = "limited")
                     => /\ now >= serverCalls[c].wake
                        /\ \/ serverCalls'[c].pc = "limited"
                           \/ /\ requestTimestamps'[q] # <<>>
                              /\ requestTimestamps'[q]
                                     [Len(requestTimestamps'[q])] = now ]_vars

\* C27 witness: groq has its 25 requests of the minute recorded and the
\* retry of a request that met a rate limit error waits for the rate
\* limit, until the oldest of them is a minute old.
C27_Witness ==
    /\ Len(requestTimestamps["groq"]) = GroqMaxRequestsPerMinute
    /\ \E c \in LimiterCallIds :
          /\ serverCalls[c].pc = "limited"
          /\ serverCalls[c].retryCount >= 1
          /\ serverCalls[c].wake =
                 requestTimestamps["groq"][1] + RateWindowMs + RetryBufferMs

\* C28: within one call of makeRateLimitedRequest the request is attempted
\* at most maxRetries + 1 times; a rate limit error at retry count n below
\* maxRetries is followed by a wait of retryDelayMs * 2^n and then by
\* attempt n + 2 (which fails at once, before a request is sent, where the
\* provider to ask has become fallback meanwhile); at retry count
\* maxRetries, and after any other error at once, the error goes to the
\* caller and no retry is made: a request that follows is the first attempt
\* of another call of makeRateLimitedRequest.
C28_RetryWithBackoff ==
    [][ \A c \in CallIds :
          /\ serverCalls'[c].attempts <= MaxRetries + 1
          /\ serverCalls'[c].pc = "backoff"
               => serverCalls'[c].attempts = serverCalls'[c].retryCount + 1
          /\ \A outcome \in {o \in Outcomes : ~o.ok} :
               RequestEnds(c, outcome)
                   => IF /\ outcome \in RateLimitErrors
                         /\ serverCalls[c].retryCount < MaxRetries
                      THEN /\ serverCalls'[c].pc = "backoff"
                           /\ serverCalls'[c].retryCount
                                  = serverCalls[c].retryCount
                           /\ serverCalls'[c].wake - now
                                  = RetryDelayMs(serverCalls[c].provider)
                                        * Pow2(serverCalls[c].retryCount)
                      ELSE /\ serverCalls'[c].pc # "backoff"
                           /\ serverCalls'[c].pc = "request"
                                => serverCalls'[c].attempts = 1
          /\ (SleepOver(c) /\ serverCalls[c].pc = "backoff")
               => /\ now >= serverCalls[c].wake
                  /\ IF ModelOf(CallState(c)) = "fallback"
                     THEN serverCalls'[c].pc = "request"
                              => /\ serverCalls'[c].retryCount = 0
                                 /\ serverCalls'[c].attempts = 1
                     ELSE /\ serverCalls'[c].pc \in {"request", "limited"}
                          /\ serverCalls'[c].retryCount
                                 = serverCalls[c].retryCount + 1
                          /\ serverCalls'[c].pc = "request"
                               => serverCalls'[c].attempts
                                      = serverCalls[c].attempts + 1 ]_vars

\* C28 witness: the probe of checkAPIStatus met a rate limit error at each
\* of its four attempts, 2000, 4000 and 8000 ms apart, and groq was marked
\* unavailable.
C28_Witness ==
    \E c \in RetryCallIds :
        /\ serverCalls[c].op = "checkAPIStatus"
        /\ serverCalls[c].pc = "done"
        /\ serverCalls[c].attempts = MaxRetries + 1
        /\ now = GroqRetryDelayMs * (Pow2(MaxRetries) - 1)
        /\ requestTimestamps["groq"]
               = << 0, GroqRetryDelayMs, 3 * GroqRetryDelayMs,
                    7 * GroqRetryDelayMs >>
        /\ ~providerStatus["groq"]

\* C29: setAIProvider(p) returns true exactly when currentProvider is p on
\* its return; where it returns false it leaves currentProvider and every
\* provider's status as they are; it never makes current a provider that is
\* marked unavailable, fallback apart.
C29_SetAIProviderResult ==
    [][ \A c \in CallIds :
          (Returns(c) /\ serverCalls'[c].op = "setAIProvider")
              => /\ (serverCalls'[c].ret = "true")
                        <=> (currentProvider' = serverCalls'[c].arg)
                 /\ serverCalls'[c].ret = "false"
                        => /\ currentProvider' = currentProvider
                           /\ providerStatus' = providerStatus
                 /\ currentProvider' # currentProvider
                        => \/ currentProvider' = "fallback"
                           \/ providerStatus'[currentProvider'] ]_vars

\* C30: wherever a call yields or returns, currentProvider is fallback or a
\* provider that is marked available, and so is the currentProvider that
\* checkAPIStatus returns.
C30_CurrentProviderAvailable ==
    [][ /\ currentProvider' = "fallback" \/ providerStatus'[currentProvider']
        /\ \A c \in CallIds :
             ProviderInfoArrives(c)
                 => /\ serverCalls'[c].ret = currentProvider'
                    /\ \/ serverCalls'[c].ret = "fallback"
                       \/ providerStatus'[serverCalls'[c].ret] ]_vars

\* C30 witness: the probe of checkAPIStatus failed while groq was current;
\* groq is marked unavailable and the call returned fallback as current.
C30_Witness ==
    /\ ~providerStatus["groq"] /\ currentProvider = "fallback"
    /\ \E c \in CallIds :
          /\ serverCalls[c].op = "checkAPIStatus"
          /\ serverCalls[c].pc = "done" /\ serverCalls[c].ret = "fallback"
          /\ serverCalls[c].attempts = 1

\* The provider switchToNextProvider has to select, case by case.
NextInOrder(status, current) ==
    IF current # "groq" /\ status["groq"] THEN "groq"
    ELSE IF current # "openai" /\ status["openai"] THEN "openai"
    ELSE "fallback"

\* C31: switchToNextProvider makes current, and returns, the first of groq,
\* openai, fallback that is not the current provider and is marked
\* available, fallback when there is none, and changes no provider's status.
C31_SwitchSelectsNextAvailable ==
    [][ \A c \in CallIds :
          (Returns(c) /\ serverCalls'[c].op = "switchToNextProvider")
              => /\ currentProvider'
                        = NextInOrder(providerStatus, currentProvider)
                 /\ serverCalls'[c].ret = currentProvider'
                 /\ providerStatus' = providerStatus ]_vars

\* C31 witness: with groq and openai marked available, one call of
\* switchToNextProvider returned groq and the next one openai.
C31_Witness ==
    /\ providerStatus["groq"] /\ providerStatus["openai"]
    /\ currentProvider = "openai"
    /\ \E c1, c2 \in CallIds :
          /\ serverCalls[c1].op = "switchToNextProvider"
          /\ serverCalls[c1].pc = "done" /\ serverCalls[c1].ret = "groq"
          /\ serverCalls[c2].op = "switchToNextProvider"
          /\ serverCalls[c2].pc = "done" /\ serverCalls[c2].ret = "openai"

\* C32: openai is marked unavailable in every state and is never the
\* current provider; setAIProvider("openai") returns false.
C32_OpenaiNeverCurrent ==
    /\ ~providerStatus["openai"]
    /\ currentProvider # "openai"
    /\ \A c \in CallIds :
          (/\ serverCalls[c].op = "setAIProvider"
           /\ serverCalls[c].arg = "openai"
           /\ serverCalls[c].pc = "done")
              => serverCalls[c].ret = "false"

\* C32 witness: setAIProvider("openai") has returned false while fallback
\* was current, groq being marked unavailable.
C32_Witness ==
    /\ ~providerStatus["groq"] /\ currentProvider = "fallback"
    /\ \E c \in CallIds :
          /\ serverCalls[c].op = "setAIProvider"
          /\ serverCalls[c].arg = "openai"
          /\ serverCalls[c].pc = "done" /\ serverCalls[c].ret = "false"

\* A step in which a call of op begins in slot c of the CryptoService.
Begins(c, op) == cryptoCalls[c].pc = "idle" /\ cryptoCalls'[c].op = op

\* A step in which the call in slot c of the CryptoService throws.
Throws(c) ==
    /\ cryptoCalls[c].pc # "done" /\ cryptoCalls'[c].pc = "done"
    /\ cryptoCalls'[c].err # "none"

\* C33: encryptText and decryptText throw "Encryption not initialized"
\* whenever they are called while the service holds no key; decryptText
\* throws as well when it is called with a key id that is not the current
\* one; a call that throws leaves the key and the key id as they are.
C33_UninitializedCallsFail ==
    [][ \A c \in CryptoCallIds :
          /\ ((Begins(c, "encryptText") \/ Begins(c, "decryptText"))
                  /\ cryptoService.encryptionKey = 0)
                => /\ cryptoCalls'[c].pc = "done"
                   /\ cryptoCalls'[c].err = "Encryption not initialized"
          /\ (/\ Begins(c, "decryptText")
              /\ cryptoService.encryptionKey # 0
              /\ cryptoCalls'[c].payload.keyId # cryptoService.keyId)
                => /\ cryptoCalls'[c].pc = "done"
                   /\ cryptoCalls'[c].err
                          \notin {"none", "Encryption not initialized"}
          /\ (Throws(c) /\ cryptoCalls'[c].op \in {"encryptText", "decryptText"})
                => cryptoService' = cryptoService ]_vars

\* C33 witness: decryptText was refused the data of an earlier session: the
\* key id it was given is not the one of the key held now.
C33_Witness ==
    \E c \in CryptoCallIds :
        /\ cryptoCalls[c].op = "decryptText" /\ cryptoCalls[c].pc = "done"
        /\ cryptoCalls[c].err = "Key ID mismatch"
        /\ cryptoCalls[c].payload.keyId # 0
        /\ cryptoService.encryptionKey # 0
        /\ cryptoService.keyId # cryptoCalls[c].payload.keyId

\* C34: the key and the key id of the CryptoService are both set or both
\* null, so that isInitialized() tells whether a key is held.
C34_KeyAndKeyIdTogether ==
    /\ (cryptoService.encryptionKey = 0) <=> (cryptoService.keyId = 0)
    /\ IsInitialized(cryptoService) <=> (cryptoService.encryptionKey # 0)
    /\ encryptionKey = IsInitialized(cryptoService)

\* C34 witness: a key is held, a call of initialize has failed and another
\* one awaits its key.
C34_Witness ==
    /\ IsInitialized(cryptoService)
    /\ \E c, d \in CryptoCallIds :
          /\ cryptoCalls[c].op = "initialize" /\ cryptoCalls[c].pc = "done"
          /\ cryptoCalls[c].err = "Encryption initialization failed"
          /\ cryptoCalls[d].pc = "generateKey"

\* C35: what a successful encryptText returns carries a key id that is not
\* null and is the id of the key that encrypted the data; decryptText,
\* where it accepts the key id of such a result, returns the text that was
\* encrypted.
C35_KeyIdIdentifiesKey ==
    \A c \in CryptoCallIds :
        /\ (/\ cryptoCalls[c].op = "encryptText" /\ cryptoCalls[c].pc = "done"
            /\ cryptoCalls[c].err = "none")
              => /\ cryptoCalls[c].ret.keyId # 0
                 /\ cryptoCalls[c].ret.keyId = cryptoCalls[c].ret.key
        /\ (/\ cryptoCalls[c].op = "decryptText" /\ cryptoCalls[c].pc = "done"
            /\ cryptoCalls[c].err
                   \notin {"Encryption not initialized", "Key ID mismatch"})
              => /\ cryptoCalls[c].err = "none"
                 /\ cryptoCalls[c].ret.text = cryptoCalls[c].payload.text

\* C36: where enableEncryption succeeds, the service is initialized, the
\* panel that is shown is enabled and onEncryptionChange(true, newKeyId)
\* was called with the service's key id; after disableEncryption the
\* service holds no key and onEncryptionChange(false, null) was called;
\* where enableEncryption fails, the panel that is shown stays disabled
\* and onEncryptionChange is not called; an enabled panel shows the key id
\* of the service.
C36_PanelFollowsService ==
    [][ /\ \A c \in CryptoCallIds :
             EnableEncryptionResumes(c)
                 => IF cryptoCalls[c].err = "none"
                    THEN /\ IsInitialized(cryptoService')
                         /\ PanelMounted' => panel'.isEnabled
                         /\ notified' = [called |-> TRUE, enabled |-> TRUE,
                                         keyId |-> cryptoService'.keyId]
                         /\ encryptionEnabled'
                    ELSE /\ PanelMounted' => ~panel'.isEnabled
                         /\ notified' = notified
                         /\ encryptionEnabled' = encryptionEnabled
        /\ DisableEncryption
              => /\ cryptoService' = NoKeys
                 /\ ~panel'.isEnabled
                 /\ notified' = [called |-> TRUE, enabled |-> FALSE,
                                 keyId |-> 0]
                 /\ ~encryptionEnabled'
        /\ panel'.isEnabled
              => /\ IsInitialized(cryptoService')
                 /\ panel'.keyId = cryptoService'.keyId ]_vars

====
